---- MODULE Spec2Model ----
(***************************************************************************)
(* Request / retry / error-classification pipeline of the RunPod Go        *)
(* client: makeRequest, doRequest, handleResponse, parseErrorResponse and  *)
(* the facades built on them (GetPod, the secret operations).              *)
(*                                                                         *)
(* An error value is a chain of layers, outermost first: fmt.Errorf with   *)
(* %w puts a wrapError layer in front of the chain it wraps.  The nil      *)
(* error is the empty chain.  A Go type assertion looks at the first       *)
(* layer only.                                                             *)
(***************************************************************************)
EXTENDS Integers, Sequences, FiniteSets, TLC

\* the request pipeline
VARIABLES c, op, stage, pc, req, attempt, lastErr, waited, hist,
          mrResp, mrErr, sent, trace, ret, cancelled, cancelDuringWait

\* one call of a pure function: its arguments, its result
VARIABLES call, result, done

\* one call of a facade operation: its arguments, its position, the error
\* it returns, the HTTP requests and the Get/Post/Delete calls it has made,
\* the inputs SubmitMultipleJobs has gone through and how many of them
\* failed, and its locals jobs and errors
VARIABLES facadeCall, facadePc, facadeErr, httpRequests, pipelineCalls,
          submitted, submitErrors, jobs, errors

\* WaitForJobCompletion: its arguments, the local maxWaitTime, the statuses
\* the server answers with, the time it takes to answer, the clock, the deadline, the time that passed
\* between computing the deadline and the first test of it, the position,
\* the calls of GetJobStatus made, whether one was made at or after the
\* deadline, the results, and the state of the context
VARIABLES waitCall, maxWaitTime, serverSeq, fetchTime, now, deadline, startLag,
          waitPc, fetches, lateFetch, waitJob, waitErr, waitCancelled

\* WaitForMultipleJobs: its arguments, the terminal status the server has
\* reached for each job id ("" while it has none), the clock, the locals
\* deadline, results, completed, allCompleted and i, the position, the
\* returned error, whether the returned slice is nil, the state of the
\* context, and a record of the fetches made: per position their number and
\* whether one found a terminal status, and whether a position was fetched
\* after it had been recorded terminal
VARIABLES multiCall, serverStatus, multiNow, multiDeadline, results, completed,
          allCompleted, idx, multiPc, multiErr, resultsNil, multiCancelled,
          fetchCount, observed, refetched

\* StreamResultsContinuous: its arguments, the local pollInterval, the
\* position of the background task, lastOutput, the job it is sending,
\* the contents of the two channels, how often each has been closed, the
\* deferred calls still to run, the state of the context, and a record of
\* the run: the jobs fetched, the jobs sent on jobChan, the jobs the
\* consumer has received, whether anything was sent on a closed channel,
\* and the errors sent on errChan
VARIABLES streamCall, pollInterval, streamPc, lastOutput, curJob, jobChan, errChan,
          closed, pending, streamCancelled, fetched, emitted, received,
          sentAfterClose, errEmitted

\* GetAPIKey: the APIKey of the client, the string returned, and whether
\* the call has returned
VARIABLES apiKey, masked, maskDone

\* Concurrent callers of one client: the Client, its value when NewClient
\* returned, and for each caller the operation it is in, its position in
\* it, the attempt its request is at, and what its last step read from the
\* client
VARIABLES client, client0, callerOp, callerPc, callerAttempt, callerRead

\* QuickRun: its arguments, its position, the operations it has called in
\* order with their arguments and results, the HTTP requests made, and the
\* job and the error it returns
VARIABLES quickCall, quickPc, quickCalls, quickRequests, quickJob, quickErr

\* WaitForPodStatus: its arguments, the local maxAttempts, the loop
\* variable attempt, its position, the calls of GetPod made, the status the
\* last of them found, the statuses after which it went on polling, the
\* pod and the error it returns, and the state of the context
VARIABLES podCall, maxAttempts, podAttempt, podPc, podFetches, podStatus, podPassed, podRet, podErr, podCancelled

pipeVars == <<c, op, stage, pc, req, attempt, lastErr, waited, hist,
              mrResp, mrErr, sent, trace, ret, cancelled, cancelDuringWait>>

pureVars == <<call, result, done>>

waitVars == <<waitCall, maxWaitTime, serverSeq, fetchTime, now, deadline, startLag,
              waitPc, fetches, lateFetch, waitJob, waitErr, waitCancelled>>

multiVars == <<multiCall, serverStatus, multiNow, multiDeadline, results, completed,
               allCompleted, idx, multiPc, multiErr, resultsNil, multiCancelled,
               fetchCount, observed, refetched>>

streamVars == <<streamCall, pollInterval, streamPc, lastOutput, curJob, jobChan,
                errChan, closed, pending, streamCancelled, fetched, emitted,
                received, sentAfterClose, errEmitted>>

facadeVars == <<facadeCall, facadePc, facadeErr, httpRequests, pipelineCalls,
                submitted, submitErrors, jobs, errors>>

maskVars == <<apiKey, masked, maskDone>>

configVars == <<client, client0, callerOp, callerPc, callerAttempt, callerRead>>

quickVars == <<quickCall, quickPc, quickCalls, quickRequests, quickJob, quickErr>>

podVars == <<podCall, maxAttempts, podAttempt, podPc, podFetches, podStatus, podPassed, podRet, podErr, podCancelled>>

vars == <<pipeVars, pureVars, facadeVars, waitVars, multiVars, streamVars, maskVars, configVars, quickVars, podVars>>

\* what the request pipeline leaves alone
nonPipeVars == <<pureVars, facadeVars, waitVars, multiVars, streamVars, maskVars, configVars, quickVars, podVars>>

\* what a pure function leaves alone
nonPureVars == <<pipeVars, facadeVars, waitVars, multiVars, streamVars, maskVars, configVars, quickVars, podVars>>

\* what WaitForJobCompletion leaves alone
nonWaitVars == <<pipeVars, pureVars, facadeVars, multiVars, streamVars, maskVars, configVars, quickVars, podVars>>

\* what WaitForMultipleJobs leaves alone
nonMultiVars == <<pipeVars, pureVars, facadeVars, waitVars, streamVars, maskVars, configVars, quickVars, podVars>>

\* what StreamResultsContinuous leaves alone
nonStreamVars == <<pipeVars, pureVars, facadeVars, waitVars, multiVars, maskVars, configVars, quickVars, podVars>>

\* what a facade operation leaves alone
nonFacadeVars == <<pipeVars, pureVars, waitVars, multiVars, streamVars, maskVars, configVars, quickVars, podVars>>

\* what GetAPIKey leaves alone
nonMaskVars == <<pipeVars, pureVars, facadeVars, waitVars, multiVars, streamVars, configVars, quickVars, podVars>>

\* what an operation of a concurrent caller leaves alone
nonConfigVars == <<pipeVars, pureVars, facadeVars, waitVars, multiVars, streamVars, maskVars, quickVars, podVars>>

\* what QuickRun leaves alone
nonQuickVars == <<pipeVars, pureVars, facadeVars, waitVars, multiVars, streamVars, maskVars, configVars, podVars>>

\* what WaitForPodStatus leaves alone
nonPodVars == <<pipeVars, pureVars, facadeVars, waitVars, multiVars, streamVars, maskVars, configVars, quickVars>>

(* ------------------------------ bounds --------------------------------- *)

\* largest MaxRetryAttempts a client is configured with
MaxRetries == 2

\* largest RetryDelay (in time units) a client is configured with
MaxDelay == 2

(* ------------------------- program constants --------------------------- *)

MaxRetryAttempts == 3

RetryDelay == 1

(* ----------------------------- error values ---------------------------- *)

nil == <<>>

ErrLayer(kind, status, msg, code, retryAfter, n) ==
    [kind |-> kind, StatusCode |-> status, Message |-> msg, Code |-> code,
     RetryAfter |-> retryAfter, Attempts |-> n]

NewAPIError(statusCode, message) ==
    <<ErrLayer("APIError", statusCode, message, "", <<>>, 0)>>

NewValidationError(field, message) ==
    <<ErrLayer("ValidationError", 0, message, field, <<>>, 0)>>

NewNetworkError(message) ==
    <<ErrLayer("NetworkError", 0, message, "", <<>>, 0)>>

NewAuthError(message) ==
    <<ErrLayer("AuthError", 0, message, "", <<>>, 0)>>

NewRateLimitError(message, retryAfter) ==
    <<ErrLayer("RateLimitError", 0, message, "", retryAfter, 0)>>

\* fmt.Errorf(msg + ": %w", err)
Errorf(msg, err) == <<ErrLayer("wrapError", 0, msg, "", <<>>, 0)>> \o err

\* the exhausted-retries error built with %v: the last error is not wrapped
ExhaustedErrorNoWrap(n, err) ==
    <<ErrLayer("wrapError", 0, "request failed after attempts", "", <<>>, n)>>

\* fmt.Errorf("request failed after %d attempts: %w", n, err)
ExhaustedError(n, err) ==
    <<ErrLayer("wrapError", 0, "request failed after attempts", "", <<>>, n)>> \o err

\* fmt.Errorf("HTTP %d: retryable server error", status)
RetryableStatusError(status) ==
    <<ErrLayer("errorString", status, "retryable server error", "", <<>>, 0)>>

\* fmt.Errorf("failed to marshal request body: %w", err)
MarshalError ==
    Errorf("failed to marshal request body",
           <<ErrLayer("errorString", 0, "json: unsupported type", "", <<>>, 0)>>)

\* ctx.Err()
CtxErr == <<ErrLayer("ctxError", 0, "context canceled", "", <<>>, 0)>>

IsAPIError(err) == err # nil /\ err[1].kind = "APIError"

IsValidationError(err) == err # nil /\ err[1].kind = "ValidationError"

IsNetworkError(err) == err # nil /\ err[1].kind = "NetworkError"

IsTimeoutError(err) == err # nil /\ err[1].kind = "TimeoutError"

IsAuthError(err) == err # nil /\ err[1].kind = "AuthError"

IsRateLimitError(err) == err # nil /\ err[1].kind = "RateLimitError"

IsNotFound(e) == e.StatusCode = 404

IsUnauthorized(e) == e.StatusCode = 401

IsRateLimited(e) == e.StatusCode = 429

IsServerError(e) == e.StatusCode >= 500 /\ e.StatusCode < 600

(* -------------------------- retry classification ----------------------- *)

isRetryableError(err) ==
    IF IsNetworkError(err) THEN TRUE
    ELSE IF IsTimeoutError(err) THEN TRUE
    ELSE IF IsAPIError(err) THEN IsServerError(err[1])
    ELSE FALSE

\* the status test taking every 5xx status as retryable
isRetryableHTTPStatusAll5xx(statusCode) ==
    CASE statusCode >= 500 /\ statusCode < 600 -> TRUE
      [] statusCode = 429 -> TRUE
      [] OTHER -> FALSE

\* the status test without the 503 case
isRetryableHTTPStatusNo503(statusCode) ==
    CASE statusCode \in {500, 502, 504} -> TRUE
      [] statusCode = 429 -> TRUE
      [] OTHER -> FALSE

isRetryableHTTPStatus(statusCode) ==
    CASE statusCode \in {500, 502, 503, 504} -> TRUE
      [] statusCode = 429 -> TRUE
      [] OTHER -> FALSE

(* ------------------------------ responses ------------------------------ *)

\* A response body: readable is false when io.ReadAll fails; json says the
\* text is a JSON object whose message/error members are strings; typed
\* says the members that only APIError declares (statusCode, details,
\* code, requestId) have the declared types.
Body(readable, json, typed, message, error, code, raw) ==
    [readable |-> readable, json |-> json, typed |-> typed,
     message |-> message, error |-> error, code |-> code, raw |-> raw]

Bodies ==
    { Body(FALSE, FALSE, FALSE, "", "", "", ""),
      Body(TRUE, FALSE, FALSE, "", "", "", ""),
      Body(TRUE, FALSE, FALSE, "", "", "", "oops"),
      Body(TRUE, TRUE, TRUE, "", "", "", "{}"),
      Body(TRUE, TRUE, TRUE, "m", "", "c", "{message:m,code:c}"),
      Body(TRUE, TRUE, TRUE, "m", "e", "", "{error:e,message:m}"),
      Body(TRUE, TRUE, TRUE, "", "e", "", "{error:e}"),
      Body(TRUE, TRUE, FALSE, "m", "e", "", "{statusCode:x,error:e,message:m}") }

Statuses == {200, 304, 400, 401, 404, 429, 500, 501, 503}

\* values of the Retry-After response header; "" is an absent header
RetryAfterValues == {"", "30"}

Response(status, body, retryAfter) ==
    [StatusCode |-> status, Body |-> body, RetryAfter |-> retryAfter]

NoResponse == Response(0, Body(TRUE, FALSE, FALSE, "", "", "", ""), "")

Responses ==
    { Response(s, b, h) : s \in Statuses, b \in Bodies, h \in {""} }
    \cup { Response(429, b, h) : b \in Bodies, h \in RetryAfterValues }

getResponseHeader(key) == ""

\* the parse whose fallback gives "server error" for the whole 5xx range
parseErrorResponseAll5xx(statusCode, body) ==
    IF body.json /\ body.typed /\ body.message # ""
    THEN <<ErrLayer("APIError", statusCode, body.message, body.code, <<>>, 0)>>
    ELSE LET message == IF body.error # "" THEN body.error ELSE body.message
         IN  IF body.json /\ message # ""
             THEN NewAPIError(statusCode, message)
             ELSE CASE statusCode = 401 -> NewAuthError("invalid or expired API key")
                    [] statusCode = 403 -> NewAuthError("insufficient permissions")
                    [] statusCode = 404 -> NewAPIError(404, "resource not found")
                    [] statusCode = 429 -> NewRateLimitError("rate limit exceeded", <<"unknown">>)
                    [] statusCode \in 500..599 -> NewAPIError(statusCode, "server error")
                    [] OTHER -> NewAPIError(statusCode, body.raw)

\* the parse that tries the simple {error|message} shape first
parseErrorResponseSimpleFirst(statusCode, body) ==
    LET message == IF body.error # "" THEN body.error ELSE body.message
    IN  IF body.json /\ message # ""
        THEN NewAPIError(statusCode, message)
        ELSE CASE statusCode = 401 -> NewAuthError("invalid or expired API key")
               [] statusCode = 403 -> NewAuthError("insufficient permissions")
               [] statusCode = 404 -> NewAPIError(404, "resource not found")
               [] statusCode = 429 -> NewRateLimitError("rate limit exceeded", <<"unknown">>)
               [] statusCode \in {500, 502, 503, 504} -> NewAPIError(statusCode, "server error")
               [] OTHER -> NewAPIError(statusCode, body.raw)

parseErrorResponse(statusCode, body) ==
    LET message == IF body.error # "" THEN body.error ELSE body.message
        resp == getResponseHeader("Retry-After")
        retryAfter == IF resp # "" THEN <<resp, " seconds">> ELSE <<"unknown">>
    IN  IF body.json /\ body.typed /\ body.message # ""
        THEN <<ErrLayer("APIError", statusCode, body.message, body.code, <<>>, 0)>>
        ELSE IF body.json /\ message # ""
        THEN NewAPIError(statusCode, message)
        ELSE CASE statusCode = 401 -> NewAuthError("invalid or expired API key")
               [] statusCode = 403 -> NewAuthError("insufficient permissions")
               [] statusCode = 404 -> NewAPIError(404, "resource not found")
               [] statusCode = 429 -> NewRateLimitError("rate limit exceeded", retryAfter)
               [] statusCode \in {500, 502, 503, 504} -> NewAPIError(statusCode, "server error")
               [] OTHER -> NewAPIError(statusCode, body.raw)

\* v is the decoding target: wantResult is v != nil
handleResponse(resp, wantResult) ==
    IF ~resp.Body.readable
    THEN NewNetworkError("failed to read response body")
    ELSE IF resp.StatusCode >= 400
    THEN parseErrorResponse(resp.StatusCode, resp.Body)
    ELSE IF wantResult /\ resp.Body.raw # "" /\ ~resp.Body.json
    THEN Errorf("failed to unmarshal response",
                <<ErrLayer("errorString", 0, "invalid character", "", <<>>, 0)>>)
    ELSE nil

(* ------------------------------- facades ------------------------------- *)

Op(name, id, value, marshalable) ==
    [name |-> name, id |-> id, value |-> value, marshalable |-> marshalable]

RawOps == {"Get", "Post", "Put", "Patch", "Delete"}

PodIDs == {"", "p1"}

SecretNames == {"", "s1"}

SecretValues == {"", "v"}

Ops ==
    { Op("Get", "", "", TRUE), Op("Delete", "", "", TRUE) }
    \cup { Op(n, "", "", m) : n \in {"Post", "Put", "Patch"}, m \in BOOLEAN }
    \cup { Op("GetPod", id, "", TRUE) : id \in PodIDs }
    \cup { Op("GetSecret", id, "", TRUE) : id \in SecretNames }
    \cup { Op(n, id, v, TRUE) : n \in {"CreateSecret", "UpdateSecret", "CreateOrUpdateSecret"},
                                id \in SecretNames, v \in SecretValues }

validateRequired(fieldName, value) ==
    IF value = "" THEN NewValidationError(fieldName, "cannot be empty") ELSE nil

validateCreateSecretRequest(o) ==
    IF validateRequired("name", o.id) # nil THEN validateRequired("name", o.id)
    ELSE validateRequired("value", o.value)

\* the checks a facade makes before it builds a request
Validate(st, o) ==
    CASE st = "GetPod" -> validateRequired("podID", o.id)
      [] st = "GetSecret" -> validateRequired("name", o.id)
      [] st = "CreateSecret" -> validateCreateSecretRequest(o)
      [] st = "UpdateSecret" ->
            IF validateRequired("name", o.id) # nil THEN validateRequired("name", o.id)
            ELSE validateRequired("value", o.value)
      [] OTHER -> nil

Request(method, endpoint, hasBody, wantResult) ==
    [method |-> method, endpoint |-> endpoint, hasBody |-> hasBody,
     wantResult |-> wantResult]

NoRequest == Request("", <<>>, FALSE, FALSE)

\* the request a facade hands to Get/Post/Put/Patch/Delete
RequestOf(st, o) ==
    CASE st = "GetPod" -> Request("GET", <<"/pods", o.id>>, FALSE, TRUE)
      [] st = "GetSecret" -> Request("GET", <<"/secrets", o.id>>, FALSE, TRUE)
      [] st = "CreateSecret" -> Request("POST", <<"/secrets">>, TRUE, TRUE)
      [] st = "UpdateSecret" -> Request("PUT", <<"/secrets", o.id>>, TRUE, TRUE)
      [] st = "Get" -> Request("GET", <<"/pods">>, FALSE, TRUE)
      [] st = "Post" -> Request("POST", <<"/pods">>, TRUE, TRUE)
      [] st = "Put" -> Request("PUT", <<"/pods">>, TRUE, TRUE)
      [] st = "Patch" -> Request("PATCH", <<"/pods">>, TRUE, TRUE)
      [] st = "Delete" -> Request("DELETE", <<"/pods">>, FALSE, FALSE)

\* what a facade returns for the error e of its Get/Post/Put/Delete call
FacadeError(st, e) ==
    IF e = nil THEN nil
    ELSE CASE st = "GetPod" -> Errorf("failed to get pod", e)
           [] st = "GetSecret" -> Errorf("failed to get secret", e)
           [] st = "CreateSecret" -> Errorf("failed to create secret", e)
           [] st = "UpdateSecret" -> Errorf("failed to update secret", e)
           [] OTHER -> e

\* the facade a public operation calls first
FirstStage(o) == IF o.name = "CreateOrUpdateSecret" THEN "GetSecret" ELSE o.name

\* CreateOrUpdateSecret after GetSecret returned err: the facade it calls
\* next, or "" when it returns err
NextStage(o, st, err) ==
    IF o.name = "CreateOrUpdateSecret" /\ st = "GetSecret"
    THEN IF err # nil
         THEN IF IsAPIError(err) /\ IsNotFound(err[1]) THEN "CreateSecret" ELSE ""
         ELSE "UpdateSecret"
    ELSE ""

(* ------------------------------ the machine ---------------------------- *)

\* ListOptions; isNil is the nil pointer
ListOptions(isNil, limit, offset) == [isNil |-> isNil, Limit |-> limit, Offset |-> offset]

\* the arguments of one call of a pure function of the client; BaseURL
\* and ServerlessBaseURL are the fields of the receiver
Call(fn, statusCode, body, endpoint, opts, base, serverless) ==
    [fn |-> fn, statusCode |-> statusCode, body |-> body, endpoint |-> endpoint,
     opts |-> opts, BaseURL |-> base, ServerlessBaseURL |-> serverless]

NoCall == Call("", 0, Body(TRUE, FALSE, FALSE, "", "", "", ""), <<>>,
               ListOptions(TRUE, 0, 0), <<>>, <<>>)

PureIdle ==
    /\ call = NoCall
    /\ result = <<>>
    /\ done = FALSE

\* CreatePodRequest and CreateSecretRequest; isNil is the nil pointer
CreateRequest(isNil, name, imageName, gpuTypeId, gpuCount, disk, cloudType, value) ==
    [isNil |-> isNil, Name |-> name, ImageName |-> imageName,
     GPUTypeID |-> gpuTypeId, GPUCount |-> gpuCount,
     ContainerDiskInGB |-> disk, CloudType |-> cloudType, Value |-> value]

NoCreateRequest == CreateRequest(TRUE, "", "", "", 0, 0, "", "")

\* the arguments of one call of a facade operation; inputs is len(inputs)
FacadeCall(name, endpointID, jobID, inputs, podID, secretName, request) ==
    [op |-> name, endpointID |-> endpointID, jobID |-> jobID, inputs |-> inputs,
     podID |-> podID, name |-> secretName, req |-> request]

NoFacadeCall == FacadeCall("", "", "", 0, "", "", NoCreateRequest)

FacadeIdle ==
    /\ facadeCall = NoFacadeCall
    /\ facadePc = "done"
    /\ facadeErr = nil
    /\ httpRequests = 0
    /\ pipelineCalls = 0
    /\ submitted = 0
    /\ submitErrors = 0
    /\ jobs = <<>>
    /\ errors = <<>>

\* a JSON value decoded into interface{}: t is its dynamic type
Value(t, v) == [t |-> t, v |-> v]

\* the nil interface value
NilValue == Value("nil", "")

\* *Job; isNil is the nil pointer
Job(id, status, error, output) ==
    [isNil |-> FALSE, ID |-> id, Status |-> status, Error |-> error, Output |-> output]

NilJob == [isNil |-> TRUE, ID |-> "", Status |-> "", Error |-> "", Output |-> NilValue]

WaitIdle ==
    /\ waitCall = [endpointID |-> "", jobID |-> "", maxWaitTime |-> 0]
    /\ maxWaitTime = 0
    /\ serverSeq = <<>>
    /\ fetchTime = 0
    /\ now = 0
    /\ deadline = 0
    /\ startLag = 0
    /\ waitPc = "done"
    /\ fetches = 0
    /\ lateFetch = FALSE
    /\ waitJob = NilJob
    /\ waitErr = nil
    /\ waitCancelled = FALSE

MultiIdle ==
    /\ multiCall = [endpointID |-> "", jobIDs |-> <<>>, maxWaitTime |-> 0]
    /\ serverStatus = <<>>
    /\ multiNow = 0
    /\ multiDeadline = 0
    /\ results = <<>>
    /\ completed = <<>>
    /\ allCompleted = FALSE
    /\ idx = 0
    /\ multiPc = "done"
    /\ multiErr = nil
    /\ resultsNil = TRUE
    /\ multiCancelled = FALSE
    /\ fetchCount = <<>>
    /\ observed = <<>>
    /\ refetched = FALSE

StreamIdle ==
    /\ streamCall = [endpointID |-> "", jobID |-> "", pollInterval |-> 0]
    /\ pollInterval = 0
    /\ streamPc = "exited"
    /\ lastOutput = NilValue
    /\ curJob = NilJob
    /\ jobChan = <<>>
    /\ errChan = <<>>
    /\ closed = [ch \in {"jobChan", "errChan"} |-> 0]
    /\ pending = <<>>
    /\ streamCancelled = FALSE
    /\ fetched = <<>>
    /\ emitted = <<>>
    /\ received = <<>>
    /\ sentAfterClose = FALSE
    /\ errEmitted = <<>>

MaskIdle ==
    /\ apiKey = <<>>
    /\ masked = <<>>
    /\ maskDone = TRUE

ConfigIdle ==
    /\ client = <<>>
    /\ client0 = <<>>
    /\ callerOp = <<>>
    /\ callerPc = <<>>
    /\ callerAttempt = <<>>
    /\ callerRead = <<>>

QuickIdle ==
    /\ quickCall = [endpointID |-> ""]
    /\ quickPc = "done"
    /\ quickCalls = <<>>
    /\ quickRequests = 0
    /\ quickJob = NilJob
    /\ quickErr = nil

PodIdle ==
    /\ podCall = [podID |-> "", targetStatus |-> "", maxAttempts |-> 0]
    /\ maxAttempts = 0
    /\ podAttempt = 0
    /\ podPc = "done"
    /\ podFetches = 0
    /\ podStatus = ""
    /\ podPassed = {}
    /\ podRet = [isNil |-> TRUE, ID |-> "", Status |-> ""]
    /\ podErr = nil
    /\ podCancelled = FALSE

NonPipeIdle == PureIdle /\ FacadeIdle /\ WaitIdle /\ MultiIdle /\ StreamIdle /\ MaskIdle /\ ConfigIdle /\ QuickIdle /\ PodIdle

Clients == [MaxRetryAttempts : 0..MaxRetries, RetryDelay : 1..MaxDelay]

Init ==
    /\ c \in Clients
    /\ op \in Ops
    /\ stage = ""
    /\ pc = "idle"
    /\ req = NoRequest
    /\ attempt = 0
    /\ lastErr = nil
    /\ waited = 0
    /\ hist = <<>>
    /\ mrResp = NoResponse
    /\ mrErr = nil
    /\ sent = {}
    /\ trace = <<>>
    /\ ret = nil
    /\ cancelled = FALSE
    /\ cancelDuringWait = FALSE
    /\ NonPipeIdle

\* the request pipeline at rest
PipeIdle ==
    /\ c = [MaxRetryAttempts |-> 0, RetryDelay |-> 1]
    /\ op = Op("Get", "", "", TRUE)
    /\ stage = ""
    /\ pc = "done"
    /\ req = NoRequest
    /\ attempt = 0
    /\ lastErr = nil
    /\ waited = 0
    /\ hist = <<>>
    /\ mrResp = NoResponse
    /\ mrErr = nil
    /\ sent = {}
    /\ trace = <<>>
    /\ ret = nil
    /\ cancelled = FALSE
    /\ cancelDuringWait = FALSE

NonPureIdle == PipeIdle /\ FacadeIdle /\ WaitIdle /\ MultiIdle /\ StreamIdle /\ MaskIdle /\ ConfigIdle /\ QuickIdle /\ PodIdle

NonWaitIdle == PipeIdle /\ PureIdle /\ FacadeIdle /\ MultiIdle /\ StreamIdle /\ MaskIdle /\ ConfigIdle /\ QuickIdle /\ PodIdle

NonMultiIdle == PipeIdle /\ PureIdle /\ FacadeIdle /\ WaitIdle /\ StreamIdle /\ MaskIdle /\ ConfigIdle /\ QuickIdle /\ PodIdle

NonStreamIdle == PipeIdle /\ PureIdle /\ FacadeIdle /\ WaitIdle /\ MultiIdle /\ MaskIdle /\ ConfigIdle /\ QuickIdle /\ PodIdle

NonMaskIdle == PipeIdle /\ PureIdle /\ FacadeIdle /\ WaitIdle /\ MultiIdle /\ StreamIdle /\ ConfigIdle /\ QuickIdle /\ PodIdle

NonConfigIdle == PipeIdle /\ PureIdle /\ FacadeIdle /\ WaitIdle /\ MultiIdle /\ StreamIdle /\ MaskIdle /\ QuickIdle /\ PodIdle

NonQuickIdle == PipeIdle /\ PureIdle /\ FacadeIdle /\ WaitIdle /\ MultiIdle /\ StreamIdle /\ MaskIdle /\ ConfigIdle /\ PodIdle

NonPodIdle == PipeIdle /\ PureIdle /\ FacadeIdle /\ WaitIdle /\ MultiIdle /\ StreamIdle /\ MaskIdle /\ ConfigIdle /\ QuickIdle

NonFacadeIdle == PipeIdle /\ PureIdle /\ WaitIdle /\ MultiIdle /\ StreamIdle /\ MaskIdle /\ ConfigIdle /\ QuickIdle /\ PodIdle

\* a facade starts: validation, then the call of makeRequest
EnterStage(st) ==
    /\ stage' = st
    /\ IF Validate(st, op) # nil
       THEN /\ pc' = "done"
            /\ ret' = Validate(st, op)
            /\ UNCHANGED <<req, attempt, lastErr, waited, hist, mrResp, mrErr>>
       ELSE /\ pc' = "loop"
            /\ req' = RequestOf(st, op)
            /\ attempt' = 0
            /\ lastErr' = nil
            /\ waited' = 0
            /\ hist' = <<>>
            /\ mrResp' = NoResponse
            /\ mrErr' = nil
            /\ UNCHANGED ret

Invoke ==
    /\ UNCHANGED nonPipeVars
    /\ pc = "idle"
    /\ EnterStage(FirstStage(op))
    /\ UNCHANGED <<c, op, sent, trace, cancelled, cancelDuringWait>>

\* the loop condition with the bound off by one
loopContinuesStrict == attempt < c.MaxRetryAttempts

\* the condition of makeRequest's for loop
loopContinues == attempt <= c.MaxRetryAttempts

\* the head of makeRequest's for loop, and the return after it
LoopHead ==
    /\ UNCHANGED nonPipeVars
    /\ pc = "loop"
    /\ IF loopContinues
       THEN /\ pc' = IF attempt > 0 THEN "backoff" ELSE "doRequest"
            /\ UNCHANGED <<mrResp, mrErr>>
       ELSE /\ pc' = "returned"
            /\ mrResp' = NoResponse
            /\ mrErr' = ExhaustedError(c.MaxRetryAttempts + 1, lastErr)
    /\ waited' = 0
    /\ UNCHANGED <<c, op, stage, req, attempt, lastErr, hist, sent, trace, ret,
                   cancelled, cancelDuringWait>>

\* time.After(c.RetryDelay * time.Duration(attempt))
Backoff(k) == c.RetryDelay * k

\* a wait that does not look at the context
ctxDoneIgnored == FALSE

\* the case <-ctx.Done() of the select is ready
ctxDone == cancelled

\* the case <-time.After(...) of the select is ready
timerFired == waited >= Backoff(attempt)

\* time passes while makeRequest is blocked in the select
Tick ==
    /\ UNCHANGED nonPipeVars
    /\ pc = "backoff"
    /\ ~ctxDone
    /\ ~timerFired
    /\ waited' = waited + 1
    /\ UNCHANGED <<c, op, stage, pc, req, attempt, lastErr, hist, mrResp, mrErr,
                   sent, trace, ret, cancelled, cancelDuringWait>>

WaitCancelled ==
    /\ UNCHANGED nonPipeVars
    /\ pc = "backoff"
    /\ ctxDone
    /\ pc' = "returned"
    /\ mrResp' = NoResponse
    /\ mrErr' = CtxErr
    /\ UNCHANGED <<c, op, stage, req, attempt, lastErr, waited, hist, sent, trace,
                   ret, cancelled, cancelDuringWait>>

WaitElapsed ==
    /\ UNCHANGED nonPipeVars
    /\ pc = "backoff"
    /\ timerFired
    /\ pc' = "doRequest"
    /\ UNCHANGED <<c, op, stage, req, attempt, lastErr, waited, hist, mrResp, mrErr,
                   sent, trace, ret, cancelled, cancelDuringWait>>

\* what one call of doRequest can produce: an error, or a response
Outcome(err, resp) == [err |-> err, resp |-> resp]

doRequest ==
    IF req.hasBody /\ ~op.marshalable
    THEN { Outcome(MarshalError, NoResponse) }
    ELSE { Outcome(NewNetworkError("HTTP request failed"), NoResponse) }
         \cup IF cancelled THEN {} ELSE { Outcome(nil, r) : r \in Responses }

\* the retryable-status test without the bound on the attempt counter
attemptsRemainAlways == TRUE

\* the second operand of the retryable-status test
attemptsRemain == attempt < c.MaxRetryAttempts

\* one iteration of makeRequest's loop from the call of doRequest on; an
\* entry of hist records the outcome of doRequest, the time waited before
\* it, and whether the loop went on (continue) or returned
Attempt ==
    /\ UNCHANGED nonPipeVars
    /\ pc = "doRequest"
    /\ \E o \in doRequest :
        /\ sent' = IF o.err # MarshalError
                   THEN sent \cup {<<req.method, req.endpoint>>} ELSE sent
        /\ hist' = Append(hist,
              [err |-> o.err, status |-> o.resp.StatusCode, waited |-> waited,
               retried |-> IF o.err # nil THEN isRetryableError(o.err)
                           ELSE isRetryableHTTPStatus(o.resp.StatusCode)
                                /\ attemptsRemain])
        /\ IF o.err # nil
           THEN /\ lastErr' = o.err
                /\ IF ~isRetryableError(o.err)
                   THEN /\ pc' = "returned"
                        /\ mrResp' = NoResponse
                        /\ mrErr' = o.err
                        /\ UNCHANGED attempt
                   ELSE /\ pc' = "loop"
                        /\ attempt' = attempt + 1
                        /\ UNCHANGED <<mrResp, mrErr>>
           ELSE IF isRetryableHTTPStatus(o.resp.StatusCode) /\ attemptsRemain
                THEN /\ lastErr' = RetryableStatusError(o.resp.StatusCode)
                     /\ pc' = "loop"
                     /\ attempt' = attempt + 1
                     /\ UNCHANGED <<mrResp, mrErr>>
                ELSE /\ pc' = "returned"
                     /\ mrResp' = o.resp
                     /\ mrErr' = nil
                     /\ UNCHANGED <<attempt, lastErr>>
    /\ UNCHANGED <<c, op, stage, req, waited, trace, ret, cancelled, cancelDuringWait>>

\* Get/Post/Put/Patch/Delete after makeRequest returned
VerbError == IF mrErr # nil THEN mrErr ELSE handleResponse(mrResp, req.wantResult)

\* makeRequest returned: the rest of Get/Post/Put/Patch/Delete, of the
\* facade, and of CreateOrUpdateSecret
Return ==
    /\ UNCHANGED nonPipeVars
    /\ pc = "returned"
    /\ trace' = Append(trace, [stage |-> stage, method |-> req.method,
                               status |-> mrResp.StatusCode,
                               ok |-> VerbError = nil])
    /\ LET err == FacadeError(stage, VerbError)
           next == NextStage(op, stage, err)
       IN  IF next # ""
           THEN EnterStage(next)
           ELSE /\ pc' = "done"
                /\ ret' = err
                /\ UNCHANGED <<stage, req, attempt, lastErr, waited, hist, mrResp, mrErr>>
    /\ UNCHANGED <<c, op, sent, cancelled, cancelDuringWait>>

\* the caller cancels the context
Cancel ==
    /\ UNCHANGED nonPipeVars
    /\ ~cancelled
    /\ pc # "done"
    /\ cancelled' = TRUE
    /\ cancelDuringWait' = (pc = "backoff" /\ ~timerFired)
    /\ UNCHANGED <<c, op, stage, pc, req, attempt, lastErr, waited, hist, mrResp,
                   mrErr, sent, trace, ret>>

Next ==
    \/ Invoke
    \/ LoopHead
    \/ Tick
    \/ WaitCancelled
    \/ WaitElapsed
    \/ Attempt
    \/ Return
    \/ Cancel

Spec == Init /\ [][Next]_vars

(* ------------------------------- claims -------------------------------- *)

\* the statuses the specification lists as retryable
RetryableStatuses == {500, 502, 503, 504, 429}

\* makeRequest has returned to its caller
Returned == pc \in {"returned", "done"}

\* every attempt of the current makeRequest call failed at transport level
AllTransport == \A i \in 1..Len(hist) : IsNetworkError(hist[i].err)

\* every attempt of the current makeRequest call got a response
AllResponses == \A i \in 1..Len(hist) : hist[i].err = nil

\* C1: with MaxRetryAttempts = N, no cancellation and every attempt failing
\* at transport level, makeRequest makes exactly N+1 attempts and returns the
\* "request failed after N+1 attempts" error wrapping the last NetworkError.
C1_TransportRetryCount ==
    /\ Len(hist) <= c.MaxRetryAttempts + 1
    /\ (pc = "returned" /\ ~cancelled /\ hist # <<>> /\ AllTransport) =>
         /\ Len(hist) = c.MaxRetryAttempts + 1
         /\ mrResp = NoResponse
         /\ mrErr = ExhaustedError(c.MaxRetryAttempts + 1,
                                   NewNetworkError("HTTP request failed"))

C1_Witness ==
    /\ pc = "returned"
    /\ ~cancelled
    /\ c.MaxRetryAttempts = 2
    /\ Len(hist) = 3
    /\ AllTransport
    /\ mrErr[1].Attempts = 3

\* C2: when the first k responses (k <= MaxRetryAttempts) have a retryable
\* status and response k+1 has not, makeRequest returns response k+1 after
\* exactly k+1 attempts (503, 503, 200 -> the 200 after 3 attempts; a 400
\* first -> returned after 1 attempt).
C2_RetryUntilNonRetryable ==
    /\ \A n \in 1..Len(hist) :
        ( /\ \A i \in 1..n : hist[i].err = nil
          /\ \A i \in 1..(n-1) : hist[i].status \in RetryableStatuses
          /\ hist[n].status \notin RetryableStatuses
          /\ n - 1 <= c.MaxRetryAttempts )
        => /\ Len(hist) = n
           /\ Returned
           /\ mrErr = nil
           /\ mrResp.StatusCode = hist[n].status
    /\ \A k \in 1..Len(hist) :
        ( /\ \A i \in 1..k : hist[i].err = nil /\ hist[i].status \in RetryableStatuses
          /\ k <= c.MaxRetryAttempts )
        => ~(Returned /\ Len(hist) = k /\ mrErr = nil)

C2_Witness ==
    /\ pc = "returned"
    /\ Len(hist) = 3
    /\ AllResponses
    /\ hist[1].status = 503 /\ hist[2].status = 503 /\ hist[3].status = 200
    /\ mrErr = nil
    /\ mrResp.StatusCode = 200

\* the statuses of the 5xx range that the pipeline retries
RetriedServerStatuses == {500, 502, 503, 504}

\* the caller's operation is one of Get/Post/Put/Patch/Delete and is over
RawDone == pc = "done" /\ op.name \in RawOps

\* the whole attempt budget was used, every attempt failing at transport
\* level or with a retried 5xx status
BudgetExhausted ==
    /\ ~cancelled
    /\ Len(hist) = c.MaxRetryAttempts + 1
    /\ \A i \in 1..Len(hist) :
          \/ IsNetworkError(hist[i].err)
          \/ hist[i].err = nil /\ hist[i].status \in RetriedServerStatuses

\* the error is the retry-exhaustion error around the last underlying error
IsExhausted(err) ==
    /\ Len(err) >= 2
    /\ err[1].kind = "wrapError"
    /\ err[1].Message = "request failed after attempts"
    /\ err[1].Attempts = c.MaxRetryAttempts + 1
    /\ Tail(err) = lastErr

\* C3 (as stated): whenever the budget is exhausted by network or 5xx
\* failures, the error Get/Post/Put/Patch/Delete returns is the "request
\* failed after N+1 attempts" error carrying the last underlying error.
C3_Original == (RawDone /\ BudgetExhausted) => IsExhausted(ret)

\* C3 (amended): the retry-exhaustion error is returned when the last
\* attempt failed at transport level; when the last attempt was answered
\* with a 5xx status the caller gets the error handleResponse derives from
\* that response, which carries no retry-exhaustion context.
C3_ExhaustionContext ==
    (RawDone /\ BudgetExhausted) =>
        IF IsNetworkError(hist[Len(hist)].err)
        THEN /\ IsExhausted(ret)
             /\ IsNetworkError(Tail(ret))
        ELSE /\ ret # nil
             /\ \A i \in 1..Len(ret) : ret[i].Attempts = 0
             /\ IF mrResp.Body.readable
                THEN IsAPIError(ret) /\ ret[1].StatusCode = hist[Len(hist)].status
                ELSE IsNetworkError(ret)

C3_Witness ==
    /\ RawDone /\ BudgetExhausted
    /\ c.MaxRetryAttempts = 2
    /\ hist[1].status = 503 /\ hist[2].status = 503
    /\ IsNetworkError(hist[3].err)
    /\ IsExhausted(ret)

\* C4: if every response has a retryable status, exactly MaxRetryAttempts+1
\* attempts are made, the last response is returned (not an error) and
\* handleResponse surfaces the typed error for its status; a retryable
\* status (429 included) seen when attempt = MaxRetryAttempts is not retried.
C4_RetryableOnlyWhileAttemptsRemain ==
    /\ ( /\ Returned /\ ~cancelled /\ hist # <<>> /\ AllResponses
         /\ \A i \in 1..Len(hist) : hist[i].status \in RetryableStatuses )
       => /\ Len(hist) = c.MaxRetryAttempts + 1
          /\ mrErr = nil
          /\ mrResp.StatusCode = hist[Len(hist)].status
          /\ (RawDone /\ mrResp.Body.readable) =>
                \/ IsAPIError(ret) /\ ret[1].StatusCode = mrResp.StatusCode
                \/ IsRateLimitError(ret) /\ mrResp.StatusCode = 429
    /\ ( /\ Len(hist) > c.MaxRetryAttempts
         /\ hist[c.MaxRetryAttempts + 1].err = nil )
       => /\ Len(hist) = c.MaxRetryAttempts + 1
          /\ ~hist[c.MaxRetryAttempts + 1].retried
          /\ Returned

C4_Witness ==
    /\ RawDone /\ ~cancelled
    /\ c.MaxRetryAttempts = 2
    /\ Len(hist) = 3
    /\ AllResponses
    /\ \A i \in 1..3 : hist[i].status = 429
    /\ mrErr = nil
    /\ IsRateLimitError(ret)

\* attempt number i-1 was made while attempts remained
AttemptsRemained(i) == i <= c.MaxRetryAttempts

\* C5 (as stated): while attempts remain, a NetworkError, a TimeoutError
\* and every response with a status in 500..599 is retried, and a
\* ValidationError, an AuthError, a request-marshalling error or a 4xx status
\* other than 429 is returned at its first occurrence.
C5_Original ==
    \A i \in 1..Len(hist) :
        AttemptsRemained(i) =>
            /\ ( \/ IsNetworkError(hist[i].err)
                 \/ IsTimeoutError(hist[i].err)
                 \/ hist[i].err = nil /\ hist[i].status \in 500..599 )
               => hist[i].retried
            /\ ( \/ IsValidationError(hist[i].err)
                 \/ IsAuthError(hist[i].err)
                 \/ hist[i].err = MarshalError
                 \/ hist[i].err = nil /\ hist[i].status \in (400..499) \ {429} )
               => ~hist[i].retried

\* C5 (amended): while attempts remain, an attempt is retried iff it failed
\* with a NetworkError or TimeoutError or was answered with one of 500, 502,
\* 503, 504, 429; any other status (501, 4xx other than 429) and a request
\* marshalling error end the call at their first occurrence, and no
\* ValidationError or AuthError ever comes out of an attempt.
C5_RetriedIffTransportOrListedStatus ==
    \A i \in 1..Len(hist) :
        /\ AttemptsRemained(i) =>
            ( hist[i].retried <=>
                \/ IsNetworkError(hist[i].err)
                \/ IsTimeoutError(hist[i].err)
                \/ hist[i].err = nil /\ hist[i].status \in RetryableStatuses )
        /\ ~hist[i].retried => (i = Len(hist) /\ Returned)
        /\ ~IsValidationError(hist[i].err) /\ ~IsAuthError(hist[i].err)

C5_Witness ==
    /\ pc = "returned"
    /\ c.MaxRetryAttempts = 2
    /\ Len(hist) = 2
    /\ hist[1].status = 500 /\ hist[1].retried
    /\ hist[2].err = nil /\ hist[2].status = 501 /\ ~hist[2].retried
    /\ mrResp.StatusCode = 501

\* C6: before attempt k > 0 makeRequest waits RetryDelay * k; a cancellation
\* during that wait ends the call at once with the context's error and no
\* further HTTP attempt is made.
C6_LinearBackoffHonoursCancel ==
    /\ \A i \in 1..Len(hist) : hist[i].waited = c.RetryDelay * (i - 1)
    /\ cancelDuringWait =>
          /\ pc \in {"backoff", "returned", "done"}
          /\ Len(hist) = attempt
          /\ Returned => (mrErr = CtxErr /\ mrResp = NoResponse)
          /\ RawDone => ret = CtxErr

C6_Witness ==
    /\ cancelDuringWait
    /\ RawDone
    /\ ret = CtxErr
    /\ c.RetryDelay = 2
    /\ Len(hist) = 2
    /\ hist[2].waited = 2
    /\ waited = 1

\* the error types of the taxonomy
TypedKinds == {"APIError", "ValidationError", "NetworkError", "TimeoutError",
               "AuthError", "RateLimitError"}

\* IsAPIError, IsNetworkError, ... : one of them holds of the error value
IsTyped(err) == err # nil /\ err[1].kind \in TypedKinds

\* the call ended with the decoding of a response (makeRequest gave no error)
AnsweredWith(status) == mrErr = nil /\ mrResp.StatusCode = status

\* C7: the error a public operation returns is itself a typed error that the
\* Is... predicates classify; GetPod answered with 404 returns an error for
\* which IsAPIError holds and IsNotFound is true.
C7_TypedErrorToCaller ==
    (pc = "done" /\ op.name = "GetPod" /\ AnsweredWith(404) /\ mrResp.Body.readable) =>
        /\ IsTyped(ret)
        /\ IsAPIError(ret)
        /\ IsNotFound(ret[1])

\* the request was handed to the HTTP client at least once
WasSent(method, endpoint) == <<method, endpoint>> \in sent

\* C8: CreateOrUpdateSecret(name, value) with a name and a value: POST
\* /secrets when GetSecret was answered 404, PUT /secrets/{name} when
\* GetSecret succeeded, and for any other GetSecret failure that error and
\* neither a POST nor a PUT.
C8_CreateOrUpdateSecret ==
    ( /\ pc = "done" /\ op.name = "CreateOrUpdateSecret"
      /\ op.id # "" /\ op.value # "" /\ trace # <<>> ) =>
        LET get == trace[1]
            created == WasSent("POST", <<"/secrets">>)
            updated == WasSent("PUT", <<"/secrets", op.id>>)
        IN  /\ get.status = 404 => (created /\ ~updated)
            /\ get.ok => (updated /\ ~created)
            /\ (~get.ok /\ get.status # 404) =>
                  (~created /\ ~updated /\ ret # nil)

\* neither error-body shape parses
Unparseable(body) ==
    ~(body.json /\ (body.message # "" \/ body.error # ""))

\* C9 (as stated): for every response whose status is not 2xx, handleResponse
\* returns an error, never success.
C9_Original ==
    (RawDone /\ mrErr = nil /\ mrResp.StatusCode \notin 200..299) => ret # nil

\* C9 (amended): for every response whose status is 400 or more,
\* handleResponse returns exactly one typed error: a NetworkError when the
\* body cannot be read, otherwise the structured API error if the body parses
\* as one with a non-empty message, else the simple {error|message} error,
\* else the status-code fallback.
C9_ErrorPrecedence ==
    (RawDone /\ mrErr = nil /\ mrResp.StatusCode >= 400) =>
        LET b == mrResp.Body
            st == mrResp.StatusCode
        IN  /\ Len(ret) = 1
            /\ IsTyped(ret)
            /\ IF ~b.readable THEN IsNetworkError(ret)
               ELSE IF b.json /\ b.typed /\ b.message # ""
               THEN /\ IsAPIError(ret)
                    /\ ret[1].StatusCode = st
                    /\ ret[1].Message = b.message
                    /\ ret[1].Code = b.code
               ELSE IF ~Unparseable(b)
               THEN /\ IsAPIError(ret)
                    /\ ret[1].StatusCode = st
                    /\ ret[1].Message = (IF b.error # "" THEN b.error ELSE b.message)
                    /\ ret[1].Code = ""
               ELSE /\ ret[1].Message \notin {"m", "e"}
                    /\ st \in {401, 403} <=> IsAuthError(ret)
                    /\ st = 429 <=> IsRateLimitError(ret)
                    /\ st \notin {401, 403, 429} =>
                          (IsAPIError(ret) /\ ret[1].StatusCode = st)

C9_Witness ==
    /\ RawDone /\ AnsweredWith(404)
    /\ mrResp.Body.readable /\ mrResp.Body.json /\ mrResp.Body.typed
    /\ mrResp.Body.message = "m" /\ mrResp.Body.error = "e"
    /\ IsAPIError(ret)
    /\ ret[1].Message = "m"

\* C10: a 429 without a parseable error body gives a RateLimitError whose
\* retry-after hint is the Retry-After header when the response has one and
\* "unknown" only when it has none.
C10_RetryAfterHint ==
    ( /\ RawDone /\ AnsweredWith(429)
      /\ mrResp.Body.readable /\ Unparseable(mrResp.Body) ) =>
        /\ IsRateLimitError(ret)
        /\ ret[1].RetryAfter = <<"unknown">> <=> mrResp.RetryAfter = ""
        /\ mrResp.RetryAfter # "" => ret[1].RetryAfter[1] = mrResp.RetryAfter

(* ---------------------------- URL composition -------------------------- *)

\* A URL or endpoint is a sequence of tokens whose concatenation is its
\* text.  The tokens are chosen so that the text begins with "/v2/" exactly
\* when the first token is "/v2/", and contains "api.runpod.ai" exactly when
\* one of the tokens is in HostTokens.

\* largest Limit and Offset of a ListOptions
MaxPage == 2

DefaultBaseURL == <<"https://rest.runpod.io/v1">>

DefaultServerlessBaseURL == <<"https://api.runpod.ai/v2">>

\* values of Client.BaseURL (the default, or one set with WithBaseURL)
BaseURLs == { DefaultBaseURL, <<"http://127.0.0.1:8080">> }

\* values of Client.ServerlessBaseURL
ServerlessBaseURLs == { DefaultServerlessBaseURL, <<"http://127.0.0.1:8081">> }

\* the tokens whose text contains "api.runpod.ai"
HostTokens == { "api.runpod.ai", "https://api.runpod.ai/v2" }

\* strings.HasPrefix(s, prefix), for the prefix "/v2/"
HasPrefix(s, prefix) == Len(s) >= 1 /\ s[1] = prefix

\* strings.Contains(s, "api.runpod.ai")
ContainsHost(s) == \E i \in 1..Len(s) : s[i] \in HostTokens

\* buildURL without the verbatim case
buildURLPrefixOnly(cl, endpoint) ==
    IF HasPrefix(endpoint, "/v2/")
    THEN cl.ServerlessBaseURL \o endpoint
    ELSE cl.BaseURL \o endpoint

buildURL(cl, endpoint) ==
    IF HasPrefix(endpoint, "/v2/") \/ ContainsHost(endpoint)
    THEN IF HasPrefix(endpoint, "/v2/")
         THEN cl.ServerlessBaseURL \o endpoint
         ELSE endpoint
    ELSE cl.BaseURL \o endpoint

Digit(n) == CASE n = 0 -> "0" [] n = 1 -> "1" [] n = 2 -> "2" [] n = 3 -> "3"
              [] n = 4 -> "4" [] n = 5 -> "5" [] n = 6 -> "6" [] n = 7 -> "7"
              [] n = 8 -> "8" [] n = 9 -> "9"

RECURSIVE Itoa(_)
\* strconv.Itoa of a natural number: its decimal digits
Itoa(n) == IF n < 10 THEN <<Digit(n)>> ELSE Itoa(n \div 10) \o <<Digit(n % 10)>>

\* the keys the client puts in a query, in the order url.Values.Encode
\* writes them (sorted by key)
QueryKeys == <<"limit", "offset">>

RECURSIVE Encode(_, _)
\* url.Values.Encode of the values params holds under the keys ks
Encode(params, ks) ==
    IF ks = <<>> THEN <<>>
    ELSE <<Head(ks), "=">> \o params[Head(ks)]
         \o (IF Tail(ks) = <<>> THEN <<>> ELSE <<"&">> \o Encode(params, Tail(ks)))

\* params maps each key of QueryKeys to its value, <<>> (the empty string)
\* for a key the map does not hold; the URL built has no query yet
buildURLWithParams(cl, endpoint, params) ==
    LET baseURL == buildURL(cl, endpoint)
        set == SelectSeq(QueryKeys, LAMBDA k : params[k] # <<>>)
    IN  IF set = <<>> THEN baseURL
        ELSE baseURL \o <<"?">> \o Encode(params, set)

buildListURL(cl, endpoint, opts) ==
    IF opts.isNil
    THEN buildURL(cl, endpoint)
    ELSE buildURLWithParams(cl, endpoint,
            [k \in {"limit", "offset"} |->
                IF k = "limit"
                THEN IF opts.Limit > 0 THEN Itoa(opts.Limit) ELSE <<>>
                ELSE IF opts.Offset > 0 THEN Itoa(opts.Offset) ELSE <<>>])

\* the URL doRequest hands to http.NewRequestWithContext for the endpoint
\* Get passes through makeRequest
requestURL(cl, endpoint) == buildURL(cl, endpoint)

\* the URL of the GET that ListPods issues
ListPodsURL(cl, opts) == requestURL(cl, buildListURL(cl, <<"/pods">>, opts))

\* the URL of the GET that ListSecrets issues
ListSecretsURL(cl, opts) == requestURL(cl, buildListURL(cl, <<"/secrets">>, opts))

(* ------------------- pure functions, one call at a time ---------------- *)

\* statuses handed to parseErrorResponse (handleResponse calls it for
\* every status of 400 or more)
ErrorStatuses == {400, 401, 403, 404, 418, 429, 500, 501, 502, 503, 504, 599}

\* bodies handed to parseErrorResponse: the ones io.ReadAll could read
ReadBodies == { b \in Bodies : b.readable }

Endpoints ==
    { <<>>,
      <<"/pods">>,
      <<"/pods/", "p1">>,
      <<"/secrets">>,
      <<"/v2">>,
      <<"/v2beta/ep1">>,
      <<"/v2/", "ep1", "/run">>,
      <<"/v2/", "ep1", "/status/", "j1">>,
      <<"/v2/", "redirect?to=", "api.runpod.ai">>,
      <<"https://api.runpod.ai/v2", "/ep1/run">>,
      <<"/pods?host=", "api.runpod.ai">>,
      <<"https://rest.runpod.io/v1", "/pods">> }

URLClients == [BaseURL : BaseURLs, ServerlessBaseURL : ServerlessBaseURLs]

ListOptionsValues ==
    { ListOptions(TRUE, 0, 0) }
    \cup { ListOptions(FALSE, l, o) : l \in (-1)..MaxPage, o \in (-1)..MaxPage }

NoBody == NoCall.body

NoOpts == NoCall.opts

Calls ==
    { Call("parseErrorResponse", st, b, <<>>, NoOpts, <<>>, <<>>) :
          st \in ErrorStatuses, b \in ReadBodies }
    \cup { Call("buildURL", 0, NoBody, e, NoOpts, cl.BaseURL, cl.ServerlessBaseURL) :
          e \in Endpoints, cl \in URLClients }
    \cup { Call(fn, 0, NoBody, <<>>, o, cl.BaseURL, cl.ServerlessBaseURL) :
          fn \in {"ListPods", "ListSecrets"}, o \in ListOptionsValues,
          cl \in URLClients }

InitPure ==
    /\ call \in Calls
    /\ result = <<>>
    /\ done = FALSE
    /\ NonPureIdle

\* the receiver of the call
Receiver == [BaseURL |-> call.BaseURL, ServerlessBaseURL |-> call.ServerlessBaseURL]

ParseErrorResponse ==
    /\ ~done
    /\ call.fn = "parseErrorResponse"
    /\ result' = parseErrorResponse(call.statusCode, call.body)
    /\ done' = TRUE
    /\ UNCHANGED <<call, nonPureVars>>

BuildURL ==
    /\ ~done
    /\ call.fn = "buildURL"
    /\ result' = buildURL(Receiver, call.endpoint)
    /\ done' = TRUE
    /\ UNCHANGED <<call, nonPureVars>>

\* ListPods up to the request doRequest creates
ListPods ==
    /\ ~done
    /\ call.fn = "ListPods"
    /\ result' = ListPodsURL(Receiver, call.opts)
    /\ done' = TRUE
    /\ UNCHANGED <<call, nonPureVars>>

\* ListSecrets up to the request doRequest creates
ListSecrets ==
    /\ ~done
    /\ call.fn = "ListSecrets"
    /\ result' = ListSecretsURL(Receiver, call.opts)
    /\ done' = TRUE
    /\ UNCHANGED <<call, nonPureVars>>

NextPure ==
    \/ ParseErrorResponse
    \/ BuildURL
    \/ ListPods
    \/ ListSecrets

SpecPure == InitPure /\ [][NextPure]_vars

\* parseErrorResponse was called with a body in which neither shape parses
FellBack == done /\ call.fn = "parseErrorResponse" /\ Unparseable(call.body)

\* C11 (as stated): when neither error-body shape parses, 401 and 403 give
\* an AuthError, 404 gives APIError(404), every status from 500 to 599
\* gives APIError(status, "server error"), and any other status gives
\* APIError(status, raw body text).  (429, which gives a RateLimitError, is
\* the subject of C10 and is left out here.)
C11_Original ==
    (FellBack /\ call.statusCode # 429) =>
        LET st == call.statusCode
        IN  CASE st \in {401, 403} -> IsAuthError(result)
              [] st = 404 -> result = NewAPIError(404, "resource not found")
              [] st \in 500..599 -> result = NewAPIError(st, "server error")
              [] OTHER -> result = NewAPIError(st, call.body.raw)

\* C11 (amended): when neither error-body shape parses, 401 and 403 give
\* an AuthError, 404 gives APIError(404), the statuses 500, 502, 503 and 504
\* give APIError(status, "server error"), 429 gives a RateLimitError, and
\* any other status, the other 5xx statuses included, gives
\* APIError(status, raw body text).
C11_StatusFallback ==
    FellBack =>
        LET st == call.statusCode
        IN  /\ Len(result) = 1
            /\ CASE st \in {401, 403} -> IsAuthError(result)
                  [] st = 404 -> result = NewAPIError(404, "resource not found")
                  [] st = 429 -> IsRateLimitError(result)
                  [] st \in {500, 502, 503, 504} -> result = NewAPIError(st, "server error")
                  [] OTHER -> result = NewAPIError(st, call.body.raw)

C11_Witness ==
    /\ FellBack
    /\ call.statusCode = 501
    /\ call.body.raw = "oops"
    /\ result = NewAPIError(501, "oops")

\* buildURL was called
Built == done /\ call.fn = "buildURL"

\* C12 (as stated): buildURL maps every endpoint that begins with "/v2/"
\* to ServerlessBaseURL + endpoint and every other endpoint to
\* BaseURL + endpoint.
C12_Original ==
    Built =>
        result = IF HasPrefix(call.endpoint, "/v2/")
                 THEN call.ServerlessBaseURL \o call.endpoint
                 ELSE call.BaseURL \o call.endpoint

\* C12 (amended): buildURL maps every endpoint that begins with "/v2/" to
\* ServerlessBaseURL + endpoint; an endpoint that does not begin with "/v2/"
\* but contains "api.runpod.ai" is returned unchanged; every other endpoint
\* is mapped to BaseURL + endpoint.
C12_Routing ==
    Built =>
        result = IF HasPrefix(call.endpoint, "/v2/")
                 THEN call.ServerlessBaseURL \o call.endpoint
                 ELSE IF ContainsHost(call.endpoint)
                 THEN call.endpoint
                 ELSE call.BaseURL \o call.endpoint

C12_Witness ==
    /\ Built
    /\ call.endpoint = <<"https://api.runpod.ai/v2", "/ep1/run">>
    /\ call.BaseURL = DefaultBaseURL
    /\ result = call.endpoint

\* the query a list request is to carry: limit and offset, each only when
\* positive
ListQuery(opts) ==
    LET limit == IF ~opts.isNil /\ opts.Limit > 0
                 THEN <<"limit", "=">> \o Itoa(opts.Limit) ELSE <<>>
        offset == IF ~opts.isNil /\ opts.Offset > 0
                  THEN <<"offset", "=">> \o Itoa(opts.Offset) ELSE <<>>
    IN  IF limit = <<>> /\ offset = <<>> THEN <<>>
        ELSE <<"?">> \o limit
             \o (IF limit # <<>> /\ offset # <<>> THEN <<"&">> ELSE <<>>)
             \o offset

\* C13: ListPods and ListSecrets send their GET to BaseURL + "/pods"
\* (BaseURL + "/secrets"), the base URL prepended exactly once, followed by
\* limit and offset as query parameters only when positive.
C13_ListURL ==
    (done /\ call.fn \in {"ListPods", "ListSecrets"}) =>
        result = call.BaseURL
                 \o (IF call.fn = "ListPods" THEN <<"/pods">> ELSE <<"/secrets">>)
                 \o ListQuery(call.opts)

(* --------------------------- facade validation ------------------------ *)

\* largest number of inputs handed to SubmitMultipleJobs
MaxInputs == 3

EndpointOps == {"RunAsync", "RunSync", "PurgeQueue", "GetHealth"}

JobOps == {"GetJobStatus", "CancelJob", "RetryJob", "StreamResults"}

PodOps == {"GetPod", "StopPod", "TerminatePod"}

SecretOps == {"GetSecret", "DeleteSecret"}

EndpointIDs == {"", "ep1"}

JobIDs == {"", "j1"}

CreatePodRequests ==
    { NoCreateRequest }
    \cup { CreateRequest(FALSE, n, i, g, cnt, disk, cloud, "") :
              n \in {"", "pod"}, i \in {"", "img"}, g \in {"", "gpu"},
              cnt \in {0, 1}, disk \in {-1, 10},
              cloud \in {"", "SECURE", "COMMUNITY", "SPOT"} }

CreateSecretRequests ==
    { NoCreateRequest }
    \cup { CreateRequest(FALSE, n, "", "", 0, 0, "", v) :
              n \in SecretNames, v \in SecretValues }

FacadeCalls ==
    { FacadeCall(o, e, "", 0, "", "", NoCreateRequest) :
          o \in EndpointOps, e \in EndpointIDs }
    \cup { FacadeCall(o, e, j, 0, "", "", NoCreateRequest) :
          o \in JobOps, e \in EndpointIDs, j \in JobIDs }
    \cup { FacadeCall("SubmitMultipleJobs", e, "", n, "", "", NoCreateRequest) :
          e \in EndpointIDs, n \in 0..MaxInputs }
    \cup { FacadeCall(o, "", "", 0, id, "", NoCreateRequest) :
          o \in PodOps, id \in PodIDs }
    \cup { FacadeCall(o, "", "", 0, "", n, NoCreateRequest) :
          o \in SecretOps, n \in SecretNames }
    \cup { FacadeCall("CreatePod", "", "", 0, "", "", r) : r \in CreatePodRequests }
    \cup { FacadeCall("CreateSecret", "", "", 0, "", "", r) : r \in CreateSecretRequests }

RECURSIVE FirstError(_)
\* the error of the first check that fails, in the order the checks are made
FirstError(errs) ==
    IF errs = <<>> THEN nil
    ELSE IF Head(errs) # nil THEN Head(errs) ELSE FirstError(Tail(errs))

\* NewValidationErrorWithValue(fieldName, "must be positive", value)
validatePositive(fieldName, value) ==
    IF value <= 0 THEN NewValidationError(fieldName, "must be positive") ELSE nil

\* the checks of the optional fields (vcpuCount, memoryInGb, volumeInGb,
\* bidPerGpu) are made only for positive values and never fail
validateCreatePodRequest(r) ==
    IF r.isNil THEN NewValidationError("request", "cannot be nil")
    ELSE FirstError(<<
            validateRequired("name", r.Name),
            validateRequired("imageName", r.ImageName),
            validateRequired("gpuTypeId", r.GPUTypeID),
            validatePositive("gpuCount", r.GPUCount),
            validatePositive("containerDiskInGb", r.ContainerDiskInGB),
            IF r.CloudType # "" /\ r.CloudType \notin {"SECURE", "COMMUNITY"}
            THEN NewValidationError("cloudType", "must be either 'SECURE' or 'COMMUNITY'")
            ELSE nil >>)

\* the checks that look at the first argument only
ValidateFacadeFirstOnly(fc) ==
    CASE fc.op \in EndpointOps \cup JobOps \cup {"SubmitMultipleJobs"} ->
            validateRequired("endpointID", fc.endpointID)
      [] fc.op \in PodOps -> validateRequired("podID", fc.podID)
      [] fc.op \in SecretOps -> validateRequired("name", fc.name)
      [] fc.op \in {"CreatePod", "CreateSecret"} ->
            IF fc.req.isNil THEN NewValidationError("request", "cannot be nil")
            ELSE validateRequired("name", fc.req.Name)

\* the checks each facade operation makes before it builds its request
ValidateFacade(fc) ==
    CASE fc.op \in EndpointOps -> validateRequired("endpointID", fc.endpointID)
      [] fc.op \in JobOps ->
            FirstError(<<validateRequired("endpointID", fc.endpointID),
                         validateRequired("jobID", fc.jobID)>>)
      [] fc.op = "SubmitMultipleJobs" ->
            FirstError(<<validateRequired("endpointID", fc.endpointID),
                         IF fc.inputs = 0
                         THEN NewValidationError("inputs", "cannot be empty")
                         ELSE nil>>)
      [] fc.op \in PodOps -> validateRequired("podID", fc.podID)
      [] fc.op \in SecretOps -> validateRequired("name", fc.name)
      [] fc.op = "CreatePod" -> validateCreatePodRequest(fc.req)
      [] fc.op = "CreateSecret" ->
            IF fc.req.isNil THEN NewValidationError("request", "cannot be nil")
            ELSE validateCreateSecretRequest(Op("CreateSecret", fc.req.Name,
                                                fc.req.Value, TRUE))

\* the operations whose request has a JSON body
BodyOps == {"RunAsync", "RunSync", "SubmitMultipleJobs", "CreatePod", "CreateSecret"}

\* What one call of Get/Post/Delete can come to, as the request pipeline
\* determines it: the number of HTTP requests it issued and the error it
\* returned.  A body that cannot be marshalled fails before any request.
PipelineOutcomes(o) ==
    { [requests |-> n, err |-> e] :
          n \in 1..(MaxRetries + 1),
          e \in {nil, NewAPIError(400, "bad request")} }
    \cup { [requests |-> MaxRetries + 1,
            err |-> ExhaustedError(MaxRetries + 1, NewNetworkError("HTTP request failed"))] }
    \cup IF o \in BodyOps THEN { [requests |-> 0, err |-> MarshalError] } ELSE {}

\* fmt.Errorf("failed to ...: %w", err) of the facade; the operation's
\* name stands for its message
FacadeWrap(o, err) == IF err = nil THEN nil ELSE Errorf(o, err)

InitFacade ==
    /\ facadeCall \in FacadeCalls
    /\ facadePc = "start"
    /\ facadeErr = nil
    /\ httpRequests = 0
    /\ pipelineCalls = 0
    /\ submitted = 0
    /\ submitErrors = 0
    /\ jobs = <<>>
    /\ errors = <<>>
    /\ NonFacadeIdle

\* the head of every facade operation: validation, and the return on failure
FacadeValidate ==
    /\ facadePc = "start"
    /\ LET err == ValidateFacade(facadeCall)
       IN  IF err # nil
           THEN facadePc' = "done" /\ facadeErr' = err
           ELSE facadePc' = "request" /\ UNCHANGED facadeErr
    /\ UNCHANGED <<facadeCall, httpRequests, pipelineCalls, submitted, submitErrors>>
    /\ UNCHANGED <<jobs, errors>>
    /\ UNCHANGED nonFacadeVars

\* the rest of a facade operation: the call of Get/Post/Delete and the return
FacadeRequest ==
    /\ facadePc = "request"
    /\ facadeCall.op # "SubmitMultipleJobs"
    /\ \E o \in PipelineOutcomes(facadeCall.op) :
          /\ httpRequests' = httpRequests + o.requests
          /\ facadeErr' = FacadeWrap(facadeCall.op, o.err)
    /\ pipelineCalls' = pipelineCalls + 1
    /\ facadePc' = "done"
    /\ UNCHANGED <<facadeCall, submitted, submitErrors>>
    /\ UNCHANGED <<jobs, errors>>
    /\ UNCHANGED nonFacadeVars

\* the Job the server answers the submission of input i with
SubmittedJob(i) ==
    Job(<<"job-0", "job-1", "job-2", "job-3">>[i + 1], "IN_QUEUE", "", NilValue)

\* fmt.Errorf("job %d failed: %w", i, err)
JobFailedError(i, err) ==
    <<ErrLayer("wrapError", 0, "job failed", "", <<>>, i)>> \o err

\* an error only when every submission failed
submitErrorAllFailed(errs, n) ==
    IF Len(errs) = n
    THEN <<ErrLayer("errorString", 0, "failed to submit jobs", "", <<>>, 0)>>
    ELSE nil

\* the error SubmitMultipleJobs returns after its loop; the errors are
\* formatted with %v
submitError(errs, n) ==
    IF Len(errs) > 0
    THEN <<ErrLayer("errorString", 0, "failed to submit jobs", "", <<>>, 0)>>
    ELSE nil

\* one iteration of the loop of SubmitMultipleJobs: RunAsync for the input
\* at index i = submitted, then the append to errors or to jobs
SubmitJob ==
    /\ facadePc = "request"
    /\ facadeCall.op = "SubmitMultipleJobs"
    /\ submitted < facadeCall.inputs
    /\ IF validateRequired("endpointID", facadeCall.endpointID) # nil
       THEN /\ submitErrors' = submitErrors + 1
            /\ errors' = Append(errors,
                    JobFailedError(submitted,
                                   validateRequired("endpointID", facadeCall.endpointID)))
            /\ UNCHANGED <<httpRequests, pipelineCalls, jobs>>
       ELSE /\ \E o \in PipelineOutcomes("RunAsync") :
                  /\ httpRequests' = httpRequests + o.requests
                  /\ submitErrors' = submitErrors + (IF o.err # nil THEN 1 ELSE 0)
                  /\ IF o.err # nil
                     THEN /\ errors' = Append(errors,
                                 JobFailedError(submitted, FacadeWrap("RunAsync", o.err)))
                          /\ UNCHANGED jobs
                     ELSE /\ jobs' = Append(jobs, SubmittedJob(submitted))
                          /\ UNCHANGED errors
            /\ pipelineCalls' = pipelineCalls + 1
    /\ submitted' = submitted + 1
    /\ UNCHANGED <<facadeCall, facadePc, facadeErr>>
    /\ UNCHANGED nonFacadeVars

\* SubmitMultipleJobs after its loop
SubmitReturn ==
    /\ facadePc = "request"
    /\ facadeCall.op = "SubmitMultipleJobs"
    /\ submitted = facadeCall.inputs
    /\ facadeErr' = submitError(errors, facadeCall.inputs)
    /\ facadePc' = "done"
    /\ UNCHANGED <<facadeCall, httpRequests, pipelineCalls, submitted, submitErrors,
                   jobs, errors>>
    /\ UNCHANGED nonFacadeVars

NextFacade ==
    \/ FacadeValidate
    \/ FacadeRequest
    \/ SubmitJob
    \/ SubmitReturn

SpecFacade == InitFacade /\ [][NextFacade]_vars

\* a required argument of the call is empty or invalid
BadArgument(fc) ==
    \/ fc.op \in EndpointOps /\ fc.endpointID = ""
    \/ fc.op \in JobOps /\ (fc.endpointID = "" \/ fc.jobID = "")
    \/ fc.op = "SubmitMultipleJobs" /\ (fc.endpointID = "" \/ fc.inputs = 0)
    \/ fc.op \in PodOps /\ fc.podID = ""
    \/ fc.op \in SecretOps /\ fc.name = ""
    \/ fc.op = "CreateSecret" /\ (fc.req.isNil \/ fc.req.Name = "" \/ fc.req.Value = "")
    \/ fc.op = "CreatePod"
         /\ \/ fc.req.isNil
            \/ "" \in {fc.req.Name, fc.req.ImageName, fc.req.GPUTypeID}
            \/ fc.req.GPUCount < 1
            \/ fc.req.ContainerDiskInGB < 1
            \/ fc.req.CloudType \notin {"", "SECURE", "COMMUNITY"}

\* C14: a facade operation called with an empty or invalid required
\* argument returns a ValidationError, unwrapped, without having called
\* Get/Post/Delete and so without any HTTP request or retry; an operation
\* whose required arguments are all valid does not fail validation.
C14_ValidationBeforeRequest ==
    facadePc # "start" =>
        IF BadArgument(facadeCall)
        THEN /\ facadePc = "done"
             /\ IsValidationError(facadeErr)
             /\ Len(facadeErr) = 1
             /\ httpRequests = 0
             /\ pipelineCalls = 0
             /\ submitted = 0
        ELSE ~IsValidationError(facadeErr)

C14_Witness ==
    /\ facadePc = "done"
    /\ facadeCall.op = "GetJobStatus"
    /\ facadeCall.endpointID = "ep1"
    /\ facadeCall.jobID = ""
    /\ facadeErr = NewValidationError("jobID", "cannot be empty")
    /\ httpRequests = 0

(* -------------------------- WaitForJobCompletion ---------------------- *)

\* Time is counted in microseconds.

\* largest maxWaitTime a caller passes, in microseconds and in poll
\* intervals
MaxWait == 3

\* longest the server's sequence of statuses
MaxSeq == 3

\* longest the server takes to answer one call of GetJobStatus, in poll
\* intervals
MaxFetchTime == 1

\* longest time that passes between two consecutive statements, in
\* microseconds
MaxLag == 1

\* 5 * time.Second
PollInterval == 5000000

\* 10 * time.Minute
DefaultMaxWaitTime == 600000000

JobStatusInQueue == "IN_QUEUE"

JobStatusInProgress == "IN_PROGRESS"

JobStatusCompleted == "COMPLETED"

JobStatusFailed == "FAILED"

JobStatusCancelled == "CANCELLED"

JobStatusTimedOut == "TIMED_OUT"

JobStatuses == {JobStatusInQueue, JobStatusInProgress, JobStatusCompleted,
                JobStatusFailed, JobStatusCancelled, JobStatusTimedOut}

\* Job.Status is a string: the statuses a response can carry are the six
\* constants and strings that are none of them
ServerStatuses == JobStatuses \cup {"UNKNOWN"}

\* the test without the state TIMED_OUT
IsJobTerminalNoTimedOut(status) ==
    status \in {JobStatusCompleted, JobStatusFailed, JobStatusCancelled}

IsJobTerminal(status) ==
    status \in {JobStatusCompleted, JobStatusFailed, JobStatusCancelled,
                JobStatusTimedOut}

\* errors.New / fmt.Errorf without %w; the message is a sequence of tokens
StringError(msg) == <<ErrLayer("errorString", 0, msg, "", <<>>, 0)>>

\* a duration formatted with %v
DurationString(n) == (IF n < 0 THEN <<"-">> \o Itoa(-n) ELSE Itoa(n)) \o <<"us">>

\* the switch without the case JobStatusTimedOut
completionCasesNoTimedOut ==
    {JobStatusCompleted, JobStatusFailed, JobStatusCancelled}

\* the cases of the switch on job.Status
completionCases ==
    {JobStatusCompleted, JobStatusFailed, JobStatusCancelled, JobStatusTimedOut}

\* the error the switch returns with the job
completionError(jobID, job) ==
    CASE job.Status = JobStatusCompleted -> nil
      [] job.Status = JobStatusFailed ->
            StringError(<<"job ", jobID, " failed: ", job.Error>>)
      [] job.Status = JobStatusCancelled ->
            StringError(<<"job ", jobID, " was cancelled">>)
      [] job.Status = JobStatusTimedOut ->
            StringError(<<"job ", jobID, " timed out">>)

\* fmt.Errorf("job %s did not complete within %v", jobID, maxWaitTime)
deadlineError(jobID, bound) ==
    StringError(<<"job ", jobID, " did not complete within ">> \o DurationString(bound))

\* The statuses the server reports for the job, in order; the last one is
\* reported from then on.  Only the last can be terminal: a job does not
\* leave a terminal status.
ServerSeqs ==
    { q \in UNION { [1..n -> ServerStatuses] : n \in 1..MaxSeq } :
          \A i \in 1..(Len(q) - 1) : ~IsJobTerminal(q[i]) }

\* the status the k-th fetch finds
StatusAt(q, k) == q[IF k <= Len(q) THEN k ELSE Len(q)]

\* the job the k-th successful call of GetJobStatus decodes
ServerJob(jobID, q, k) ==
    Job(jobID, StatusAt(q, k),
        IF StatusAt(q, k) = JobStatusFailed THEN "boom" ELSE "", NilValue)

\* the errors GetJobStatus returns when its request fails
GetJobStatusErrors ==
    { FacadeWrap("GetJobStatus", NewAPIError(404, "resource not found")),
      FacadeWrap("GetJobStatus",
                 ExhaustedError(MaxRetries + 1, NewNetworkError("HTTP request failed"))) }

\* values of maxWaitTime: none, a few microseconds, a few poll intervals
WaitTimes == (-1)..MaxWait \cup { k * PollInterval : k \in 1..MaxWait }

WaitCalls ==
    [endpointID : {"ep1"}, jobID : {"j1"}, maxWaitTime : WaitTimes]

InitWait ==
    /\ waitCall \in WaitCalls
    /\ maxWaitTime = waitCall.maxWaitTime
    /\ serverSeq \in ServerSeqs
    /\ fetchTime \in { k * PollInterval : k \in 0..MaxFetchTime }
    /\ now = 0
    /\ deadline = 0
    /\ startLag = 0
    /\ waitPc = "start"
    /\ fetches = 0
    /\ lateFetch = FALSE
    /\ waitJob = NilJob
    /\ waitErr = nil
    /\ waitCancelled = FALSE
    /\ NonWaitIdle

\* the default of maxWaitTime and the deadline; some time passes before the
\* loop tests the deadline for the first time
WaitStart ==
    /\ waitPc = "start"
    /\ maxWaitTime' = IF maxWaitTime <= 0 THEN DefaultMaxWaitTime ELSE maxWaitTime
    /\ deadline' = now + maxWaitTime'
    /\ \E lag \in 0..MaxLag :
          /\ startLag' = lag
          /\ now' = now + lag
    /\ waitPc' = "loop"
    /\ UNCHANGED <<waitCall, serverSeq, fetchTime, fetches, lateFetch, waitJob, waitErr,
                   waitCancelled>>
    /\ UNCHANGED nonWaitVars

\* the loop test that lets the deadline itself through
beforeDeadlineInclusive == now <= deadline

\* time.Now().Before(deadline)
beforeDeadline == now < deadline

\* the loop test; when it holds, one call of GetJobStatus and the switch
\* on the status; when it does not, the return after the loop
WaitPoll ==
    /\ waitPc = "loop"
    /\ IF beforeDeadline
       THEN /\ fetches' = fetches + 1
            /\ lateFetch' = (lateFetch \/ now >= deadline)
            /\ now' = now + fetchTime
            /\ \/ \E err \in GetJobStatusErrors :
                     /\ waitPc' = "done"
                     /\ waitJob' = NilJob
                     /\ waitErr' = err
               \/ /\ ~waitCancelled
                  /\ LET job == ServerJob(waitCall.jobID, serverSeq, fetches + 1)
                     IN  IF job.Status \in completionCases
                         THEN /\ waitPc' = "done"
                              /\ waitJob' = job
                              /\ waitErr' = completionError(waitCall.jobID, job)
                         ELSE /\ waitPc' = "select"
                              /\ UNCHANGED <<waitJob, waitErr>>
       ELSE /\ waitPc' = "done"
            /\ waitJob' = NilJob
            /\ waitErr' = deadlineError(waitCall.jobID, maxWaitTime)
            /\ UNCHANGED <<fetches, lateFetch, now>>
    /\ UNCHANGED <<waitCall, maxWaitTime, serverSeq, fetchTime, deadline, startLag,
                   waitCancelled>>
    /\ UNCHANGED nonWaitVars

\* case <-ctx.Done() of the select
WaitSelectCancelled ==
    /\ waitPc = "select"
    /\ waitCancelled
    /\ waitPc' = "done"
    /\ waitJob' = NilJob
    /\ waitErr' = CtxErr
    /\ UNCHANGED <<waitCall, maxWaitTime, serverSeq, fetchTime, now, deadline,
                   startLag, fetches, lateFetch, waitCancelled>>
    /\ UNCHANGED nonWaitVars

\* case <-time.After(5 * time.Second) of the select
WaitSelectTimer ==
    /\ waitPc = "select"
    /\ ~waitCancelled
    /\ now' = now + PollInterval
    /\ waitPc' = "loop"
    /\ UNCHANGED <<waitCall, maxWaitTime, serverSeq, fetchTime, deadline, startLag,
                   fetches, lateFetch, waitJob, waitErr, waitCancelled>>
    /\ UNCHANGED nonWaitVars

\* the caller cancels the context
WaitCancel ==
    /\ waitPc # "done"
    /\ ~waitCancelled
    /\ waitCancelled' = TRUE
    /\ UNCHANGED <<waitCall, maxWaitTime, serverSeq, fetchTime, now, deadline,
                   startLag, waitPc, fetches, lateFetch, waitJob, waitErr>>
    /\ UNCHANGED nonWaitVars

NextWait ==
    \/ WaitStart
    \/ WaitPoll
    \/ WaitSelectCancelled
    \/ WaitSelectTimer
    \/ WaitCancel

SpecWait == InitWait /\ [][NextWait]_vars

\* the position of the first terminal status in the server's sequence,
\* 0 when it has none
FirstTerminal(q) ==
    IF \E i \in 1..Len(q) : IsJobTerminal(q[i])
    THEN CHOOSE i \in 1..Len(q) :
            /\ IsJobTerminal(q[i])
            /\ \A j \in 1..(i - 1) : ~IsJobTerminal(q[j])
    ELSE 0

\* WaitForJobCompletion returned because GetJobStatus failed
FetchFailed == waitPc = "done" /\ waitErr \in GetJobStatusErrors

\* the token is part of the error's message
Mentions(err, token) ==
    \E i \in 1..Len(err[1].Message) : err[1].Message[i] = token

\* C15: WaitForJobCompletion never fetches past the first terminal status
\* of the server's sequence; when its fetch at that position succeeds it
\* returns there, after exactly that many fetches, with the job in that
\* status: with a nil error for COMPLETED, with an error that embeds
\* job.Error for FAILED, with an error for CANCELLED and TIMED_OUT; and it
\* returns a job in no other case.
C15_ReturnAtFirstTerminal ==
    LET k == FirstTerminal(serverSeq)
    IN  /\ k > 0 => fetches <= k
        /\ (k > 0 /\ fetches = k /\ ~FetchFailed) =>
              /\ waitPc = "done"
              /\ waitJob = ServerJob(waitCall.jobID, serverSeq, k)
              /\ waitJob.Status = JobStatusCompleted => waitErr = nil
              /\ waitJob.Status = JobStatusFailed =>
                    (waitErr # nil /\ Mentions(waitErr, waitJob.Error)
                     /\ waitJob.Error = "boom")
              /\ waitJob.Status \in {JobStatusCancelled, JobStatusTimedOut} =>
                    waitErr # nil
        /\ (waitPc = "done" /\ ~waitJob.isNil) =>
              (k > 0 /\ fetches = k /\ IsJobTerminal(waitJob.Status))

C15_Witness ==
    /\ waitPc = "done"
    /\ serverSeq = <<JobStatusInQueue, JobStatusInProgress, JobStatusCompleted>>
    /\ fetches = 3
    /\ waitJob.Status = JobStatusCompleted
    /\ waitErr = nil

\* WaitForJobCompletion returned the deadline-exceeded error
DeadlineExceeded ==
    /\ waitPc = "done"
    /\ waitErr # nil
    /\ waitErr # CtxErr
    /\ ~FetchFailed
    /\ Mentions(waitErr, " did not complete within ")

\* the bound of the call: maxWaitTime, or 10 minutes when it is not positive
WaitBound ==
    IF waitCall.maxWaitTime <= 0 THEN DefaultMaxWaitTime ELSE waitCall.maxWaitTime

\* the deadline-exceeded error names the job id and the bound
NamesJobAndBound ==
    waitErr = StringError(<<"job ", waitCall.jobID, " did not complete within ">>
                          \o DurationString(WaitBound))

\* the call ended neither by cancellation nor by a failed fetch
RanToEnd == waitPc = "done" /\ waitErr # CtxErr /\ ~FetchFailed

\* C16 (as stated): when no terminal status is observed before the
\* deadline, WaitForJobCompletion returns a nil job and a deadline-exceeded
\* error naming the job id and the bound, having made at least one status
\* fetch and having started none once the deadline had passed.
C16_Original ==
    (RanToEnd /\ waitJob.isNil) =>
        /\ DeadlineExceeded
        /\ NamesJobAndBound
        /\ fetches >= 1
        /\ ~lateFetch

\* C16 (amended): when no terminal status is observed before the deadline,
\* WaitForJobCompletion returns a nil job and a deadline-exceeded error
\* naming the job id and the bound; no status fetch is started once the
\* deadline has passed, so a status fetch is made only if the deadline has
\* not passed when the loop first tests it: a call whose bound is used up
\* before that first test returns the error without any fetch.
C16_Deadline ==
    /\ ~lateFetch
    /\ (RanToEnd /\ waitJob.isNil) =>
          /\ DeadlineExceeded
          /\ NamesJobAndBound
          /\ now >= deadline
          /\ deadline = WaitBound
          /\ fetches >= 1 <=> startLag < WaitBound
    /\ DeadlineExceeded =>
          /\ waitJob.isNil
          /\ FirstTerminal(serverSeq) = 0 \/ fetches < FirstTerminal(serverSeq)

C16_Witness ==
    /\ DeadlineExceeded
    /\ waitCall.maxWaitTime = 0
    /\ deadline = DefaultMaxWaitTime
    /\ fetches >= 60
    /\ now >= deadline
    /\ waitJob.isNil

(* --------------------------- WaitForMultipleJobs ---------------------- *)

\* largest number of job ids handed to WaitForMultipleJobs
MaxJobs == 2

\* the job ids a caller passes (an id may be passed twice)
MultiJobIDs == {"j1", "j2"}

MultiCalls ==
    [endpointID : {"ep1"},
     jobIDs : UNION { [1..n -> MultiJobIDs] : n \in 0..MaxJobs },
     maxWaitTime : WaitTimes]

\* fmt.Errorf("failed to get status for job %s: %w", jobID, err)
multiFetchError(err) == Errorf("failed to get status for job", err)

\* fmt.Errorf("%d out of %d jobs completed within %v", ...)
countError(completedCount, n, bound) ==
    StringError(Itoa(completedCount) \o <<" out of ">> \o Itoa(n)
                \o <<" jobs completed within ">> \o DurationString(bound))

\* the count made after the loop
completedCount(done_) == Cardinality({ i \in 1..Len(done_) : done_[i] })

InitMulti ==
    /\ multiCall \in MultiCalls
    /\ serverStatus = [id \in MultiJobIDs |-> ""]
    /\ multiNow = 0
    /\ multiDeadline = 0
    /\ results = <<>>
    /\ completed = <<>>
    /\ allCompleted = FALSE
    /\ idx = 0
    /\ multiPc = "start"
    /\ multiErr = nil
    /\ resultsNil = TRUE
    /\ multiCancelled = FALSE
    /\ fetchCount = [i \in 1..Len(multiCall.jobIDs) |-> 0]
    /\ observed = [i \in 1..Len(multiCall.jobIDs) |-> FALSE]
    /\ refetched = FALSE
    /\ NonMultiIdle

\* the deadline with the default WaitForJobCompletion gives its own
multiDeadlineDefaulted(bound) ==
    multiNow + (IF bound <= 0 THEN DefaultMaxWaitTime ELSE bound)

\* deadline := time.Now().Add(maxWaitTime)
multiDeadlineAfter(bound) == multiNow + bound

\* the check of jobIDs, the two slices and the deadline
MultiStart ==
    /\ multiPc = "start"
    /\ IF Len(multiCall.jobIDs) = 0
       THEN /\ multiPc' = "done"
            /\ multiErr' = NewValidationError("jobIDs", "cannot be empty")
            /\ UNCHANGED <<results, completed, multiDeadline, resultsNil>>
       ELSE /\ multiPc' = "loop"
            /\ results' = [i \in 1..Len(multiCall.jobIDs) |-> NilJob]
            /\ completed' = [i \in 1..Len(multiCall.jobIDs) |-> FALSE]
            /\ multiDeadline' = multiDeadlineAfter(multiCall.maxWaitTime)
            /\ resultsNil' = FALSE
            /\ UNCHANGED multiErr
    /\ UNCHANGED <<multiCall, serverStatus, multiNow, allCompleted, idx,
                   multiCancelled, fetchCount, observed, refetched>>
    /\ UNCHANGED nonMultiVars

\* the test of the outer loop, and the return after it
MultiLoop ==
    /\ multiPc = "loop"
    /\ IF multiNow < multiDeadline
       THEN /\ allCompleted' = TRUE
            /\ idx' = 1
            /\ multiPc' = "inner"
            /\ UNCHANGED multiErr
       ELSE /\ multiPc' = "done"
            /\ multiErr' = countError(completedCount(completed),
                                      Len(multiCall.jobIDs), multiCall.maxWaitTime)
            /\ UNCHANGED <<allCompleted, idx>>
    /\ UNCHANGED <<multiCall, serverStatus, multiNow, multiDeadline, results,
                   completed, resultsNil, multiCancelled, fetchCount, observed,
                   refetched>>
    /\ UNCHANGED nonMultiVars

\* the inner loop that passes over no position
skipCompletedNever(i) == FALSE

\* if completed[i] { continue }
skipCompleted(i) == completed[i]

\* one iteration of the inner loop, for position idx.  The server answers
\* with the terminal status the job has reached, or lets the job reach one
\* now, or reports it as still running.
MultiInner ==
    /\ multiPc = "inner"
    /\ idx <= Len(multiCall.jobIDs)
    /\ LET jobID == multiCall.jobIDs[idx]
       IN  IF skipCompleted(idx)
           THEN /\ idx' = idx + 1
                /\ UNCHANGED <<serverStatus, results, completed, allCompleted,
                               multiPc, multiErr, fetchCount, observed, refetched>>
           ELSE /\ fetchCount' = [fetchCount EXCEPT ![idx] = @ + 1]
                /\ refetched' = (refetched \/ observed[idx])
                /\ \/ \E err \in GetJobStatusErrors :
                         /\ multiPc' = "done"
                         /\ multiErr' = multiFetchError(err)
                         /\ UNCHANGED <<serverStatus, results, completed,
                                        allCompleted, idx, observed>>
                   \/ /\ ~multiCancelled
                      /\ \E st \in IF serverStatus[jobID] # ""
                                    THEN {serverStatus[jobID]}
                                    ELSE ServerStatuses :
                            LET job == Job(jobID, st,
                                           IF st = JobStatusFailed THEN "boom" ELSE "",
                                           NilValue)
                            IN  /\ serverStatus' =
                                      IF IsJobTerminal(st)
                                      THEN [serverStatus EXCEPT ![jobID] = st]
                                      ELSE serverStatus
                                /\ observed' = [observed EXCEPT
                                                  ![idx] = @ \/ IsJobTerminal(st)]
                                /\ IF IsJobTerminal(job.Status)
                                   THEN /\ results' = [results EXCEPT ![idx] = job]
                                        /\ completed' = [completed EXCEPT ![idx] = TRUE]
                                        /\ UNCHANGED allCompleted
                                   ELSE /\ allCompleted' = FALSE
                                        /\ UNCHANGED <<results, completed>>
                      /\ idx' = idx + 1
                      /\ UNCHANGED <<multiPc, multiErr>>
    /\ UNCHANGED <<multiCall, multiNow, multiDeadline, resultsNil, multiCancelled>>
    /\ UNCHANGED nonMultiVars

\* after the inner loop: the return when allCompleted, else the select
MultiRoundEnd ==
    /\ multiPc = "inner"
    /\ idx > Len(multiCall.jobIDs)
    /\ IF allCompleted
       THEN multiPc' = "done" /\ multiErr' = nil
       ELSE multiPc' = "select" /\ UNCHANGED multiErr
    /\ UNCHANGED <<multiCall, serverStatus, multiNow, multiDeadline, results,
                   completed, allCompleted, idx, resultsNil, multiCancelled,
                   fetchCount, observed, refetched>>
    /\ UNCHANGED nonMultiVars

\* case <-ctx.Done() of the select
MultiSelectCancelled ==
    /\ multiPc = "select"
    /\ multiCancelled
    /\ multiPc' = "done"
    /\ multiErr' = CtxErr
    /\ UNCHANGED <<multiCall, serverStatus, multiNow, multiDeadline, results,
                   completed, allCompleted, idx, resultsNil, multiCancelled,
                   fetchCount, observed, refetched>>
    /\ UNCHANGED nonMultiVars

\* case <-time.After(5 * time.Second) of the select
MultiSelectTimer ==
    /\ multiPc = "select"
    /\ ~multiCancelled
    /\ multiNow' = multiNow + PollInterval
    /\ multiPc' = "loop"
    /\ UNCHANGED <<multiCall, serverStatus, multiDeadline, results, completed,
                   allCompleted, idx, multiErr, resultsNil, multiCancelled,
                   fetchCount, observed, refetched>>
    /\ UNCHANGED nonMultiVars

\* the caller cancels the context
MultiCancel ==
    /\ multiPc # "done"
    /\ ~multiCancelled
    /\ multiCancelled' = TRUE
    /\ UNCHANGED <<multiCall, serverStatus, multiNow, multiDeadline, results,
                   completed, allCompleted, idx, multiPc, multiErr, resultsNil,
                   fetchCount, observed, refetched>>
    /\ UNCHANGED nonMultiVars

NextMulti ==
    \/ MultiStart
    \/ MultiLoop
    \/ MultiInner
    \/ MultiRoundEnd
    \/ MultiSelectCancelled
    \/ MultiSelectTimer
    \/ MultiCancel

SpecMulti == InitMulti /\ [][NextMulti]_vars

\* the positions of jobIDs
Positions == 1..Len(multiCall.jobIDs)

\* the positions at which a fetch has found a terminal status
ObservedTerminal == { i \in Positions : observed[i] }

\* WaitForMultipleJobs returned because the deadline elapsed
MultiDeadlineElapsed ==
    /\ multiPc = "done"
    /\ ~resultsNil
    /\ multiErr # nil
    /\ multiErr # CtxErr
    /\ multiErr[1].kind = "errorString"

\* C17: WaitForMultipleJobs tracks each position of jobIDs independently:
\* a position is fetched only while no fetch has found it terminal;
\* results[i] is non-nil exactly when a fetch for position i has found a
\* terminal status, and it is the job that fetch returned; the call does
\* not wait again once every position is terminal and then returns
\* (results, nil); when the deadline elapses first it returns the partial
\* results with an error that reports how many of the N positions
\* completed.
C17_IndependentTracking ==
    /\ ~refetched
    /\ ~resultsNil =>
          \A i \in Positions :
              /\ ~results[i].isNil <=> observed[i]
              /\ completed[i] <=> observed[i]
              /\ observed[i] =>
                    /\ results[i].ID = multiCall.jobIDs[i]
                    /\ IsJobTerminal(results[i].Status)
                    /\ results[i].Status = serverStatus[multiCall.jobIDs[i]]
    /\ multiPc \in {"loop", "select"} => ObservedTerminal # Positions
    /\ (multiPc = "done" /\ multiErr = nil) =>
          (~resultsNil /\ ObservedTerminal = Positions)
    /\ MultiDeadlineElapsed =>
          /\ multiNow >= multiDeadline
          /\ ObservedTerminal # Positions
          /\ multiErr = countError(Cardinality(ObservedTerminal),
                                   Len(multiCall.jobIDs), multiCall.maxWaitTime)

C17_Witness ==
    /\ MultiDeadlineElapsed
    /\ multiCall.jobIDs = <<"j1", "j2">>
    /\ observed = <<TRUE, FALSE>>
    /\ fetchCount[1] = 1
    /\ fetchCount[2] = 3
    /\ ~results[1].isNil
    /\ results[2].isNil

(* ------------------------- StreamResultsContinuous -------------------- *)

\* largest number of ticks on which the task fetches
MaxTicks == 3

\* 2 * time.Second
DefaultPollInterval == 2000000

\* the capacity of jobChan and of errChan
ChanCap == 1

\* the values of job.Output the server sends
Outputs == { NilValue, Value("string", "a"), Value("string", "b") }

\* the statuses the server reports while the job is streamed
StreamStatuses == {JobStatusInProgress, JobStatusCompleted, JobStatusFailed, "UNKNOWN"}

\* the errors StreamResults returns when its request fails. Under a
\* cancelled context the request fails at transport level with the
\* context's error as its cause, and makeRequest returns either ctx.Err()
\* from the wait before the next attempt or, after the last attempt, the
\* exhausted-retries error around the NetworkError
StreamResultsErrors(ctxCancelled) ==
    IF ctxCancelled
    THEN { FacadeWrap("StreamResults", CtxErr),
           FacadeWrap("StreamResults",
                      ExhaustedError(MaxRetries + 1,
                                     NewNetworkError("HTTP request failed") \o CtxErr)) }
    ELSE { FacadeWrap("StreamResults",
                      ExhaustedError(MaxRetries + 1, NewNetworkError("HTTP request failed"))),
           FacadeWrap("StreamResults", NewAPIError(404, "resource not found")) }

\* the comparison that looks at the dynamic types only
compareOutputsByType(a, b) == a.t = b.t

\* reflect.DeepEqual of two decoded JSON values
compareOutputs(a, b) == a = b

\* the deferred calls that close one channel only
deferredJobChanOnly == <<"jobChan">>

\* the deferred closes, in the order they run at the return of the task
deferred == <<"errChan", "jobChan">>

StreamCalls ==
    [endpointID : {"ep1"}, jobID : {"j1"}, pollInterval : {0, PollInterval}]

InitStream ==
    /\ streamCall \in StreamCalls
    /\ pollInterval = streamCall.pollInterval
    /\ streamPc = "start"
    /\ lastOutput = NilValue
    /\ curJob = NilJob
    /\ jobChan = <<>>
    /\ errChan = <<>>
    /\ closed = [ch \in {"jobChan", "errChan"} |-> 0]
    /\ pending = <<>>
    /\ streamCancelled = FALSE
    /\ fetched = <<>>
    /\ emitted = <<>>
    /\ received = <<>>
    /\ sentAfterClose = FALSE
    /\ errEmitted = <<>>
    /\ NonStreamIdle

\* the task returns: its deferred calls are to run
StreamReturn ==
    /\ streamPc' = "exit"
    /\ pending' = deferred

\* the default of pollInterval, the two channels, the start of the task
StreamStart ==
    /\ streamPc = "start"
    /\ pollInterval' = IF pollInterval <= 0 THEN DefaultPollInterval ELSE pollInterval
    /\ streamPc' = "tick"
    /\ UNCHANGED <<streamCall, lastOutput, curJob, jobChan, errChan, closed, pending,
                   streamCancelled, fetched, emitted, received, sentAfterClose>>
    /\ UNCHANGED errEmitted
    /\ UNCHANGED nonStreamVars

\* case <-ctx.Done() of the outer select
StreamCtxDone ==
    /\ streamPc = "tick"
    /\ streamCancelled
    /\ Len(errChan) < ChanCap
    /\ errChan' = Append(errChan, CtxErr)
    /\ errEmitted' = Append(errEmitted, CtxErr)
    /\ sentAfterClose' = (sentAfterClose \/ closed["errChan"] > 0)
    /\ StreamReturn
    /\ UNCHANGED <<streamCall, pollInterval, lastOutput, curJob, jobChan, closed,
                   streamCancelled, fetched, emitted, received>>
    /\ UNCHANGED nonStreamVars

\* case <-ticker.C of the outer select, up to the inner select or the
\* return: the call of StreamResults, the comparison with lastOutput and,
\* when the output has not changed, the test of the status
StreamTick ==
    /\ streamPc = "tick"
    /\ Len(fetched) < MaxTicks
    /\ \/ /\ \E err \in StreamResultsErrors(streamCancelled) :
                 /\ errChan' = Append(errChan, err)
                 /\ errEmitted' = Append(errEmitted, err)
          /\ Len(errChan) < ChanCap
          /\ sentAfterClose' = (sentAfterClose \/ closed["errChan"] > 0)
          /\ StreamReturn
          /\ UNCHANGED <<curJob, fetched>>
       \/ /\ ~streamCancelled
          /\ \E st \in StreamStatuses, out \in Outputs :
                LET job == Job(streamCall.jobID, st,
                               IF st = JobStatusFailed THEN "boom" ELSE "", out)
                    outputChanged == ~compareOutputs(lastOutput, job.Output)
                IN  /\ fetched' = Append(fetched, job)
                    /\ IF outputChanged
                       THEN /\ curJob' = job
                            /\ streamPc' = "send"
                            /\ UNCHANGED pending
                       ELSE /\ UNCHANGED curJob
                            /\ IF IsJobTerminal(job.Status)
                               THEN StreamReturn
                               ELSE UNCHANGED <<streamPc, pending>>
          /\ UNCHANGED <<errChan, sentAfterClose, errEmitted>>
    /\ UNCHANGED <<streamCall, pollInterval, lastOutput, jobChan, closed,
                   streamCancelled, emitted, received>>
    /\ UNCHANGED nonStreamVars

\* case jobChan <- job of the inner select, then the test of the status
StreamSend ==
    /\ streamPc = "send"
    /\ Len(jobChan) < ChanCap
    /\ jobChan' = Append(jobChan, curJob)
    /\ emitted' = Append(emitted, curJob)
    /\ sentAfterClose' = (sentAfterClose \/ closed["jobChan"] > 0)
    /\ lastOutput' = curJob.Output
    /\ curJob' = NilJob
    /\ IF IsJobTerminal(curJob.Status)
       THEN StreamReturn
       ELSE streamPc' = "tick" /\ UNCHANGED pending
    /\ UNCHANGED <<streamCall, pollInterval, errChan, closed, streamCancelled,
                   fetched, received>>
    /\ UNCHANGED errEmitted
    /\ UNCHANGED nonStreamVars

\* an inner select that gives the update up whenever it is run
innerSelectDefault == TRUE

\* an inner select with the send as its only case
innerSelectSendOnly == FALSE

\* the inner select's other case: <-ctx.Done() is ready
innerSelectCtxDone == streamCancelled

\* case <-ctx.Done() of the inner select
StreamSendAborted ==
    /\ streamPc = "send"
    /\ innerSelectCtxDone
    /\ StreamReturn
    /\ UNCHANGED <<streamCall, pollInterval, lastOutput, curJob, jobChan, errChan,
                   closed, streamCancelled, fetched, emitted, received,
                   sentAfterClose>>
    /\ UNCHANGED errEmitted
    /\ UNCHANGED nonStreamVars

\* the next deferred close; the task is over after the last
StreamDeferred ==
    /\ streamPc = "exit"
    /\ IF pending = <<>>
       THEN UNCHANGED <<closed, pending>>
       ELSE /\ closed' = [closed EXCEPT ![Head(pending)] = @ + 1]
            /\ pending' = Tail(pending)
    /\ streamPc' = IF Len(pending) <= 1 THEN "exited" ELSE "exit"
    /\ UNCHANGED <<streamCall, pollInterval, lastOutput, curJob, jobChan, errChan,
                   streamCancelled, fetched, emitted, received, sentAfterClose>>
    /\ UNCHANGED errEmitted
    /\ UNCHANGED nonStreamVars

\* the consumer receives from jobChan
ConsumerReceive ==
    /\ jobChan # <<>>
    /\ received' = Append(received, Head(jobChan))
    /\ jobChan' = Tail(jobChan)
    /\ UNCHANGED <<streamCall, pollInterval, streamPc, lastOutput, curJob, errChan,
                   closed, pending, streamCancelled, fetched, emitted,
                   sentAfterClose>>
    /\ UNCHANGED errEmitted
    /\ UNCHANGED nonStreamVars

\* the consumer receives from errChan
ConsumerReceiveErr ==
    /\ errChan # <<>>
    /\ errChan' = Tail(errChan)
    /\ UNCHANGED <<streamCall, pollInterval, streamPc, lastOutput, curJob, jobChan,
                   closed, pending, streamCancelled, fetched, emitted, received,
                   sentAfterClose>>
    /\ UNCHANGED errEmitted
    /\ UNCHANGED nonStreamVars

\* the caller cancels the context
StreamCancel ==
    /\ streamPc # "exited"
    /\ ~streamCancelled
    /\ streamCancelled' = TRUE
    /\ UNCHANGED <<streamCall, pollInterval, streamPc, lastOutput, curJob, jobChan,
                   errChan, closed, pending, fetched, emitted, received,
                   sentAfterClose>>
    /\ UNCHANGED errEmitted
    /\ UNCHANGED nonStreamVars

NextStream ==
    \/ StreamStart
    \/ StreamCtxDone
    \/ StreamTick
    \/ StreamSend
    \/ StreamSendAborted
    \/ StreamDeferred
    \/ ConsumerReceive
    \/ ConsumerReceiveErr
    \/ StreamCancel

SpecStream == InitStream /\ [][NextStream]_vars

\* the background task is a goroutine of its own: the scheduler runs it
\* whenever one of its steps stays possible. Nothing is assumed of the
\* consumer, which may never receive, nor of the ticker and the server.
SpecStreamLive ==
    /\ InitStream
    /\ [][NextStream]_vars
    /\ WF_vars(StreamStart)
    /\ WF_vars(StreamCtxDone)
    /\ WF_vars(StreamSendAborted)
    /\ WF_vars(StreamDeferred)

RECURSIVE Emissions(_, _)
\* the jobs among the fetched ones whose Output differs from the Output of
\* the last one before them that differed, starting from last
Emissions(fetchedJobs, last) ==
    IF fetchedJobs = <<>> THEN <<>>
    ELSE IF Head(fetchedJobs).Output # last
    THEN <<Head(fetchedJobs)>> \o Emissions(Tail(fetchedJobs), Head(fetchedJobs).Output)
    ELSE Emissions(Tail(fetchedJobs), last)

C19_TerminalJobEmitted ==
    ( /\ fetched # <<>>
      /\ IsJobTerminal(fetched[Len(fetched)].Status)
      /\ ~streamCancelled
      /\ closed["jobChan"] > 0 ) =>
        /\ emitted # <<>>
        /\ emitted[Len(emitted)] = fetched[Len(fetched)]

\* C20: each channel is closed at most once, and only when the task is
\* returning; the error channel and then the update channel are closed as
\* the task returns, so that both are closed once it is over, however it
\* ended; nothing is sent on a closed channel.
C20_ClosedOnceTogether ==
    /\ closed["jobChan"] <= 1
    /\ closed["errChan"] <= 1
    /\ ~sentAfterClose
    /\ (closed["jobChan"] > 0 \/ closed["errChan"] > 0) => streamPc \in {"exit", "exited"}
    /\ closed["jobChan"] > 0 => closed["errChan"] > 0
    /\ streamPc = "exited" => (closed["jobChan"] = 1 /\ closed["errChan"] = 1)
    /\ streamPc \in {"start", "tick", "send"} => pending = <<>>
    /\ Len(jobChan) <= ChanCap
    /\ Len(errChan) <= ChanCap

C20_Witness ==
    /\ streamPc = "exited"
    /\ streamCancelled
    /\ curJob # NilJob
    /\ emitted # <<>>
    /\ closed["jobChan"] = 1
    /\ closed["errChan"] = 1

\* errors.Is(err, context.Canceled): the error or one it wraps is the
\* context's error
IsCancellation(err) == \E i \in 1..Len(err) : err[i].kind = "ctxError"

\* C21: whenever the task ends at one of its suspension points (the wait
\* for the tick, the fetch, the blocked send) with the context cancelled
\* and without completing a send, it sends a cancellation error on the
\* error channel in that step, while the channels are still open.
C21_CancellationErrorEmitted ==
    [][ ( /\ streamCancelled
          /\ streamPc \in {"tick", "send"}
          /\ streamPc' = "exit"
          /\ emitted' = emitted ) =>
        ( /\ Len(errEmitted') = Len(errEmitted) + 1
          /\ IsCancellation(errEmitted'[Len(errEmitted')])
          /\ closed["errChan"] = 0
          /\ closed' = closed ) ]_vars

\* C22: a fetched job whose output differs from lastOutput is taken to
\* the send; the task leaves the send only by putting that job into a
\* free slot of the update channel, lastOutput advancing to its output in
\* the same step, or, with the context cancelled, by returning with the
\* channel, the emissions and lastOutput untouched; lastOutput changes in
\* no other step, the channel never holds more than its one slot, and a
\* task that gave an update up ends with both channels closed.
C22_NoSilentDrop ==
    [][ /\ ( fetched' # fetched /\ fetched'[Len(fetched')].Output # lastOutput ) =>
            ( streamPc' = "send" /\ curJob' = fetched'[Len(fetched')] )
        /\ streamPc = "send" =>
            \/ /\ streamPc' = "send"
               /\ UNCHANGED <<curJob, emitted, lastOutput>>
            \/ /\ Len(jobChan) < ChanCap
               /\ jobChan' = Append(jobChan, curJob)
               /\ emitted' = Append(emitted, curJob)
               /\ lastOutput' = curJob.Output
            \/ /\ streamCancelled
               /\ streamPc' = "exit"
               /\ UNCHANGED <<curJob, jobChan, errChan, emitted, lastOutput>>
        /\ lastOutput' # lastOutput =>
            ( emitted' = Append(emitted, curJob) /\ lastOutput' = curJob.Output )
        /\ Len(jobChan') <= ChanCap
        /\ ( streamPc' = "exited" /\ curJob' # NilJob ) =>
            ( closed'["jobChan"] = 1 /\ closed'["errChan"] = 1 /\ ~sentAfterClose' )
      ]_vars

\* the second update waited for the consumer to free the slot, and the
\* third was given up, the slot full, when the context was cancelled
C22_Witness ==
    /\ streamPc = "exited"
    /\ streamCancelled
    /\ Len(emitted) = 2
    /\ Len(received) = 1
    /\ jobChan = <<emitted[2]>>
    /\ curJob # NilJob
    /\ curJob.Output # lastOutput

\* C28: once the context is cancelled, or once an error has been sent on
\* the error channel, the background task comes to its end with both
\* channels closed, whether or not a consumer ever receives; at most one
\* value is ever sent on the error channel, which is empty for as long as
\* the task runs, so that the one send on it finds its slot free.
C28_TaskTerminates ==
    /\ [](Len(errEmitted) <= 1)
    /\ [](streamPc \in {"start", "tick", "send"} => errChan = <<>> /\ errEmitted = <<>>)
    /\ [](streamCancelled => <>(streamPc = "exited"))
    /\ [](errEmitted # <<>> => <>(streamPc = "exited"))
    /\ [](streamPc = "exited" => closed["jobChan"] = 1 /\ closed["errChan"] = 1)

\* the task is over after a cancellation that found it in the send with
\* the slot taken, and nothing was ever received from either channel
C28_Witness ==
    /\ streamPc = "exited"
    /\ streamCancelled
    /\ received = <<>>
    /\ Len(jobChan) = ChanCap
    /\ curJob # NilJob
    /\ errEmitted = <<>>

(* ----------------------------- GetAPIKey -------------------------------- *)

\* longest API key a client is constructed with
MaxKeyLen == 11

\* the characters API keys are made of
KeyChars == {"a", "*"}

\* the API keys NewClient accepts: it panics on the empty one
APIKeys == UNION { [1..n -> KeyChars] : n \in 1..MaxKeyLen }

\* the literal "***"
Stars == <<"*", "*", "*">>

\* Client.GetAPIKey on a client whose APIKey is key
GetAPIKey(key) ==
    IF Len(key) <= 8
    THEN Stars
    ELSE SubSeq(key, 1, 4) \o Stars \o SubSeq(key, Len(key) - 3, Len(key))

InitMask ==
    /\ apiKey \in APIKeys
    /\ masked = <<>>
    /\ maskDone = FALSE
    /\ NonMaskIdle

\* a call of GetAPIKey
GetAPIKeyCall ==
    /\ ~maskDone
    /\ masked' = GetAPIKey(apiKey)
    /\ maskDone' = TRUE
    /\ UNCHANGED apiKey
    /\ UNCHANGED nonMaskVars

NextMask == GetAPIKeyCall

SpecMask == InitMask /\ [][NextMask]_vars

\* C24: GetAPIKey returns "***" for a key of at most 8 characters and
\* otherwise the key's first 4 characters, "***" and its last 4 characters;
\* the string returned is never the key itself.
C24_NeverRawKey ==
    maskDone =>
        /\ Len(apiKey) <= 8 => masked = Stars
        /\ Len(apiKey) > 8 =>
              /\ Len(masked) = 11
              /\ \A i \in 1..4 : masked[i] = apiKey[i]
              /\ \A i \in 5..7 : masked[i] = "*"
              /\ \A i \in 8..11 : masked[i] = apiKey[Len(apiKey) - 11 + i]
        /\ masked # apiKey

(* ------------------- the client under concurrent callers --------------- *)

\* number of callers that share the client
MaxCallers == 2

\* longest list of options given to NewClient
MaxOpts == 2

Callers == 1..MaxCallers

\* a ClientOption: the field its closure assigns and the value
Option(field, value) == [field |-> field, value |-> value]

\* the options a client is constructed with
Options ==
    { Option("BaseURL", <<"http://127.0.0.1:8080">>),
      Option("Debug", TRUE),
      Option("MaxRetryAttempts", 0),
      Option("Timeout", 5),
      Option("HTTPClient", [Timeout |-> 0]) }

OptionLists == UNION { [1..n -> Options] : n \in 0..MaxOpts }

\* opt(c): the closure of a With... option run on the client
ApplyOption(cl, o) ==
    IF o.field = "Timeout"
    THEN [cl EXCEPT !.HTTPClient = [Timeout |-> o.value]]
    ELSE [cl EXCEPT ![o.field] = o.value]

RECURSIVE ApplyOptions(_, _)
\* for _, opt := range opts { opt(c) }
ApplyOptions(cl, opts) ==
    IF opts = <<>> THEN cl
    ELSE ApplyOptions(ApplyOption(cl, Head(opts)), Tail(opts))

\* NewClient(apiKey, opts...)
NewClient(key, opts) ==
    ApplyOptions([APIKey |-> key,
                  BaseURL |-> DefaultBaseURL,
                  ServerlessBaseURL |-> DefaultServerlessBaseURL,
                  HTTPClient |-> [Timeout |-> 30],
                  UserAgent |-> "runpod-go/1.0.0",
                  Debug |-> FALSE,
                  MaxRetryAttempts |-> MaxRetryAttempts,
                  RetryDelay |-> RetryDelay,
                  Logger |-> "defaultLogger"], opts)

\* the accessors, and one operation on each of the two hosts
Accessors == {"GetAPIKey", "GetBaseURL", "GetServerlessBaseURL", "IsDebugEnabled"}

RequestEndpoints ==
    [ GetPod |-> <<"/pods/", "p1">>, RunSync |-> <<"/v2/", "ep1", "/runsync">> ]

CallerOps == Accessors \cup DOMAIN RequestEndpoints

\* a step that, in the way of an option, sets the timeout of the transport
receiverAfterSetsTimeout(cl, step) ==
    IF step = "Do" THEN [cl EXCEPT !.HTTPClient = [Timeout |-> 1]] ELSE cl

\* the client a step of an operation leaves behind: no statement of a
\* method assigns to a field of its receiver
receiverAfter(cl, step) == cl

\* a value read from a field of the client
Read(field, value) == [field |-> field, value |-> value]

\* what a step of an operation reads from the client
stepReads(cl, o, step) ==
    CASE step = "GetAPIKey" -> <<Read("APIKey", cl.APIKey)>>
      [] step = "GetBaseURL" -> <<Read("BaseURL", cl.BaseURL)>>
      [] step = "GetServerlessBaseURL" -> <<Read("ServerlessBaseURL", cl.ServerlessBaseURL)>>
      [] step = "IsDebugEnabled" -> <<Read("Debug", cl.Debug)>>
      [] step = "makeRequest" -> <<Read("MaxRetryAttempts", cl.MaxRetryAttempts)>>
      [] step = "doRequest" ->
            <<Read(IF buildURL(cl, RequestEndpoints[o]) = cl.BaseURL \o RequestEndpoints[o]
                   THEN "BaseURL" ELSE "ServerlessBaseURL",
                   IF buildURL(cl, RequestEndpoints[o]) = cl.BaseURL \o RequestEndpoints[o]
                   THEN cl.BaseURL ELSE cl.ServerlessBaseURL),
              Read("APIKey", cl.APIKey), Read("UserAgent", cl.UserAgent)>>
      [] step = "Do" ->
            <<Read("Debug", cl.Debug), Read("Logger", cl.Logger),
              Read("HTTPClient", cl.HTTPClient)>>
      [] step = "retry" ->
            <<Read("Debug", cl.Debug), Read("MaxRetryAttempts", cl.MaxRetryAttempts),
              Read("RetryDelay", cl.RetryDelay)>>

InitConfig ==
    /\ \E key \in {<<"k", "1">>}, opts \in OptionLists : client = NewClient(key, opts)
    /\ client0 = client
    /\ callerOp = [k \in Callers |-> ""]
    /\ callerPc = [k \in Callers |-> "idle"]
    /\ callerAttempt = [k \in Callers |-> 0]
    /\ callerRead = [k \in Callers |-> <<>>]
    /\ NonConfigIdle

\* caller k advances from position from to position to, running step
CallerStep(k, from, step, to) ==
    /\ callerPc[k] = from
    /\ callerRead' = [callerRead EXCEPT ![k] = stepReads(client, callerOp[k], step)]
    /\ client' = receiverAfter(client, step)
    /\ callerPc' = [callerPc EXCEPT ![k] = to]
    /\ callerAttempt' = [callerAttempt EXCEPT ![k] = IF step = "retry" THEN @ + 1
                                                     ELSE IF to = "return" THEN 0 ELSE @]
    /\ UNCHANGED <<client0, callerOp>>
    /\ UNCHANGED nonConfigVars

\* caller k calls an operation of the client
CallerCall(k) ==
    /\ callerPc[k] = "idle"
    /\ \E o \in CallerOps :
          /\ callerOp' = [callerOp EXCEPT ![k] = o]
          /\ callerPc' = [callerPc EXCEPT ![k] = IF o \in Accessors THEN "accessor"
                                                 ELSE "makeRequest"]
    /\ callerRead' = [callerRead EXCEPT ![k] = <<>>]
    /\ callerAttempt' = [callerAttempt EXCEPT ![k] = 0]
    /\ UNCHANGED <<client, client0>>
    /\ UNCHANGED nonConfigVars

\* the body of an accessor
CallerAccessor(k) == CallerStep(k, "accessor", callerOp[k], "return")

\* the head of makeRequest's loop
CallerMakeRequest(k) == CallerStep(k, "makeRequest", "makeRequest", "doRequest")

\* doRequest up to the headers: buildURL and setRequestHeaders
CallerDoRequest(k) == CallerStep(k, "doRequest", "doRequest", "Do")

\* the debug output and c.HTTPClient.Do(req); then the response is
\* returned or the attempt is to be repeated
CallerDo(k) ==
    \E to \in {"return"} \cup
               (IF callerAttempt[k] < client.MaxRetryAttempts THEN {"retry"} ELSE {}) :
        CallerStep(k, "Do", "Do", to)

\* the wait before the next attempt
CallerRetry(k) == CallerStep(k, "retry", "retry", "doRequest")

\* the operation returns to caller k
CallerReturn(k) ==
    /\ callerPc[k] = "return"
    /\ callerPc' = [callerPc EXCEPT ![k] = "idle"]
    /\ callerOp' = [callerOp EXCEPT ![k] = ""]
    /\ callerAttempt' = [callerAttempt EXCEPT ![k] = 0]
    /\ callerRead' = [callerRead EXCEPT ![k] = <<>>]
    /\ UNCHANGED <<client, client0>>
    /\ UNCHANGED nonConfigVars

NextConfig ==
    \E k \in Callers :
        \/ CallerCall(k)
        \/ CallerAccessor(k)
        \/ CallerMakeRequest(k)
        \/ CallerDoRequest(k)
        \/ CallerDo(k)
        \/ CallerRetry(k)
        \/ CallerReturn(k)

SpecConfig == InitConfig /\ [][NextConfig]_vars

\* C23: under every interleaving of the operations of concurrent callers,
\* the client stays equal to its value when NewClient returned, field by
\* field, and every value an operation reads from it is the value of that
\* field at construction.
C23_ConfigurationReadOnly ==
    /\ client = client0
    /\ \A f \in {"APIKey", "BaseURL", "ServerlessBaseURL", "HTTPClient", "UserAgent",
                  "Debug", "MaxRetryAttempts", "RetryDelay", "Logger"} :
          client[f] = client0[f]
    /\ \A k \in Callers : \A i \in 1..Len(callerRead[k]) :
          callerRead[k][i].value = client0[callerRead[k][i].field]

\* two callers are inside requests at once, one repeating an attempt, on
\* a client constructed with options
C23_Witness ==
    /\ client.Debug
    /\ client.BaseURL # DefaultBaseURL
    /\ callerOp[1] = "RunSync"
    /\ callerPc[1] = "retry"
    /\ callerAttempt[1] > 0
    /\ callerOp[2] = "GetPod"
    /\ callerPc[2] = "Do"
    /\ callerRead[2] # <<>>

(* ------------------------- SubmitMultipleJobs --------------------------- *)

\* the indices of the inputs whose jobs are in js
JobIndices(js) ==
    { i \in 0..(MaxInputs - 1) : \E k \in 1..Len(js) : js[k] = SubmittedJob(i) }

\* the indices of the inputs whose failures are in errs
ErrorIndices(errs) == { errs[k][1].Attempts : k \in 1..Len(errs) }

\* C25: in a call of SubmitMultipleJobs whose arguments pass validation,
\* after k iterations exactly the inputs at indices 0..k-1 have been
\* submitted, one RunAsync each, every one of them either in jobs or in
\* errors and both lists in increasing order of index; the call returns
\* after the last input, whatever failed before it, with the jobs of the
\* successful submissions, and the returned error is nil exactly when no
\* submission failed, the jobs and the failures adding up to len(inputs).
C25_SubmitInOrder ==
    ( facadeCall.op = "SubmitMultipleJobs" /\ ValidateFacade(facadeCall) = nil
      /\ facadePc # "start" ) =>
        /\ submitted <= facadeCall.inputs
        /\ pipelineCalls = submitted
        /\ Len(jobs) + Len(errors) = submitted
        /\ JobIndices(jobs) \cup ErrorIndices(errors) = 0..(submitted - 1)
        /\ \A k \in 1..Len(jobs) : \E i \in 0..(submitted - 1) : jobs[k] = SubmittedJob(i)
        /\ \A k, l \in 1..Len(jobs) :
              k < l => \E i, j \in 0..(submitted - 1) :
                          i < j /\ jobs[k] = SubmittedJob(i) /\ jobs[l] = SubmittedJob(j)
        /\ \A k, l \in 1..Len(errors) :
              k < l => errors[k][1].Attempts < errors[l][1].Attempts
        /\ facadePc = "done" =>
              /\ submitted = facadeCall.inputs
              /\ Len(jobs) + Len(errors) = facadeCall.inputs
              /\ (facadeErr = nil) <=> (errors = <<>>)
              /\ (facadeErr = nil) <=> (Len(jobs) = facadeCall.inputs)

\* the second of three submissions failed and the third was still made
C25_Witness ==
    /\ facadeCall.op = "SubmitMultipleJobs"
    /\ facadeCall.inputs = 3
    /\ facadePc = "done"
    /\ jobs = <<SubmittedJob(0), SubmittedJob(2)>>
    /\ Len(errors) = 1
    /\ errors[1][1].Attempts = 1
    /\ facadeErr # nil

(* ------------------------------ QuickRun -------------------------------- *)

\* the bound WaitForJobCompletion takes by default, passed explicitly
QuickRunMaxWaitDefault == DefaultMaxWaitTime

\* 5 * time.Minute
QuickRunMaxWait == 300000000

\* a call of an operation by QuickRun or RunAndWait, with what it returned
OpCall(o, endpointID, jobID, bound, job, err, requests) ==
    [op |-> o, endpointID |-> endpointID, jobID |-> jobID, maxWaitTime |-> bound,
     job |-> job, err |-> err, requests |-> requests]

\* the jobs a submission is answered with: for /runsync in any status, for
\* /run queued; a response without an id decodes to an empty ID
RunJobs(o) ==
    IF o = "RunSync"
    THEN { Job("j1", st, IF st = JobStatusFailed THEN "boom" ELSE "", NilValue) :
              st \in ServerStatuses }
    ELSE { Job(id, JobStatusInQueue, "", NilValue) : id \in {"j1", ""} }

\* what RunSync or RunAsync returns: a validation error before any
\* request, or the decoded job, or the wrapped error of Post
RunOutcomes(o, endpointID) ==
    IF validateRequired("endpointID", endpointID) # nil
    THEN { OpCall(o, endpointID, "", 0, NilJob,
                  validateRequired("endpointID", endpointID), 0) }
    ELSE { OpCall(o, endpointID, "", 0, NilJob, FacadeWrap(o, r.err), r.requests) :
              r \in { x \in PipelineOutcomes(o) : x.err # nil } }
         \cup { OpCall(o, endpointID, "", 0, job, nil, r.requests) :
                  job \in RunJobs(o), r \in { x \in PipelineOutcomes(o) : x.err = nil } }

\* what WaitForJobCompletion returns for a positive bound: the job at its
\* first terminal status with the error of the switch, or the error of a
\* failed fetch, of the cancelled context or of the deadline
WaitOutcomes(endpointID, jobID, bound) ==
    LET maxWait == IF bound <= 0 THEN DefaultMaxWaitTime ELSE bound
    IN  IF validateRequired("jobID", jobID) # nil
        THEN { OpCall("WaitForJobCompletion", endpointID, jobID, bound, NilJob,
                      validateRequired("jobID", jobID), 0) }
        ELSE { OpCall("WaitForJobCompletion", endpointID, jobID, bound, job,
                      completionError(jobID, job), 1) :
                  job \in { Job(jobID, st, IF st = JobStatusFailed THEN "boom" ELSE "",
                                NilValue) : st \in completionCases } }
             \cup { OpCall("WaitForJobCompletion", endpointID, jobID, bound, NilJob, e, 1) :
                      e \in GetJobStatusErrors \cup {CtxErr, deadlineError(jobID, maxWait)} }

QuickCalls == [endpointID : {"", "ep1"}]

InitQuick ==
    /\ quickCall \in QuickCalls
    /\ quickPc = "start"
    /\ quickCalls = <<>>
    /\ quickRequests = 0
    /\ quickJob = NilJob
    /\ quickErr = nil
    /\ NonQuickIdle

\* job, err := c.RunSync(ctx, endpointID, input), and the return of its
\* job when err is nil
QuickRunSync ==
    /\ quickPc = "start"
    /\ \E r \in RunOutcomes("RunSync", quickCall.endpointID) :
          /\ quickCalls' = Append(quickCalls, r)
          /\ quickRequests' = quickRequests + r.requests
          /\ IF r.err # nil
             THEN /\ quickPc' = "RunAndWait"
                  /\ UNCHANGED <<quickJob, quickErr>>
             ELSE /\ quickPc' = "done"
                  /\ quickJob' = r.job
                  /\ quickErr' = nil
    /\ UNCHANGED quickCall
    /\ UNCHANGED nonQuickVars

\* RunAndWait: job, err := c.RunAsync(ctx, endpointID, input), and the
\* return of err when it is not nil
QuickRunAsync ==
    /\ quickPc = "RunAndWait"
    /\ \E r \in RunOutcomes("RunAsync", quickCall.endpointID) :
          /\ quickCalls' = Append(quickCalls, r)
          /\ quickRequests' = quickRequests + r.requests
          /\ IF r.err # nil
             THEN /\ quickPc' = "done"
                  /\ quickJob' = NilJob
                  /\ quickErr' = r.err
             ELSE /\ quickPc' = "wait"
                  /\ UNCHANGED <<quickJob, quickErr>>
    /\ UNCHANGED quickCall
    /\ UNCHANGED nonQuickVars

\* RunAndWait: return c.WaitForJobCompletion(ctx, endpointID, job.ID,
\* maxWaitTime), which QuickRun returns in turn
QuickWait ==
    /\ quickPc = "wait"
    /\ \E r \in WaitOutcomes(quickCall.endpointID,
                              quickCalls[Len(quickCalls)].job.ID, QuickRunMaxWait) :
          /\ quickCalls' = Append(quickCalls, r)
          /\ quickRequests' = quickRequests + r.requests
          /\ quickJob' = r.job
          /\ quickErr' = r.err
    /\ quickPc' = "done"
    /\ UNCHANGED quickCall
    /\ UNCHANGED nonQuickVars

NextQuick ==
    \/ QuickRunSync
    \/ QuickRunAsync
    \/ QuickWait

SpecQuick == InitQuick /\ [][NextQuick]_vars

\* C26: the first operation QuickRun calls is RunSync; when RunSync
\* returns no error, QuickRun returns its job and a nil error and nothing
\* else is called or requested; when RunSync returns an error, RunAsync is
\* called next for the same endpoint and, if it succeeds,
\* WaitForJobCompletion for the job it returned with a bound of 5 minutes;
\* QuickRun then returns the job and the error of the last of these calls,
\* not the error of RunSync.
C26_SyncThenFallback ==
    /\ quickPc # "start" =>
          /\ quickCalls[1].op = "RunSync"
          /\ quickCalls[1].endpointID = quickCall.endpointID
    /\ Len(quickCalls) >= 2 =>
          /\ quickCalls[1].err # nil
          /\ quickCalls[2].op = "RunAsync"
          /\ quickCalls[2].endpointID = quickCall.endpointID
    /\ Len(quickCalls) >= 3 =>
          /\ Len(quickCalls) = 3
          /\ quickCalls[2].err = nil
          /\ quickCalls[3].op = "WaitForJobCompletion"
          /\ quickCalls[3].endpointID = quickCall.endpointID
          /\ quickCalls[3].jobID = quickCalls[2].job.ID
          /\ quickCalls[3].maxWaitTime = 5 * 60 * 1000000
    /\ quickPc = "done" =>
          LET last == quickCalls[Len(quickCalls)]
          IN  /\ quickJob = last.job
              /\ quickErr = last.err
              /\ IF quickCalls[1].err = nil
                 THEN /\ Len(quickCalls) = 1
                      /\ quickErr = nil
                      /\ quickRequests = quickCalls[1].requests
                 ELSE /\ Len(quickCalls) = (IF quickCalls[2].err # nil THEN 2 ELSE 3)
                      /\ (quickErr # nil /\ quickCall.endpointID # "") =>
                            quickErr # quickCalls[1].err
                      /\ (Len(quickCalls) = 3 /\ quickErr # nil /\ quickJob.isNil
                            /\ quickErr \notin GetJobStatusErrors \cup {CtxErr}
                            /\ ~IsValidationError(quickErr)) =>
                            quickErr = deadlineError(quickCalls[3].jobID, 5 * 60 * 1000000)

\* RunSync failed, the job was submitted with RunAsync, and the wait for
\* it ran into the bound
C26_Witness ==
    /\ quickPc = "done"
    /\ Len(quickCalls) = 3
    /\ IsAPIError(Tail(quickCalls[1].err))
    /\ quickCalls[2].job.ID = "j1"
    /\ quickErr = deadlineError("j1", QuickRunMaxWait)

(* ----------------------- the three polling loops ------------------------ *)

InitPolling == InitWait \/ InitMulti \/ InitStream

NextPolling == NextWait \/ NextMulti \/ NextStream

\* a call of WaitForJobCompletion, of WaitForMultipleJobs or of
\* StreamResultsContinuous
SpecPolling == InitPolling /\ [][NextPolling]_vars

\* the strings IsJobTerminal is asked about
StatusStrings == ServerStatuses \cup {"", "completed", "Completed", "TIMEOUT", "RUNNING"}

\* C27: IsJobTerminal holds of COMPLETED, FAILED, CANCELLED and TIMED_OUT
\* and of no other string. WaitForJobCompletion goes on polling after a
\* fetched status exactly when IsJobTerminal does not hold of it, and the
\* job it returns has a status of which it holds; WaitForMultipleJobs
\* records a position as completed, and fetches it no more, exactly when a
\* fetch found a status of which it holds; StreamResultsContinuous fetches
\* again only after a status of which it does not hold and, unless an
\* error or a cancellation ends it, ends on one of which it holds.
C27_TerminalStatuses ==
    /\ \A st \in StatusStrings :
          IsJobTerminal(st) <=> st \in {"COMPLETED", "FAILED", "CANCELLED", "TIMED_OUT"}
    /\ (waitPc # "done" /\ fetches >= 1) =>
          ~IsJobTerminal(StatusAt(serverSeq, fetches))
    /\ (waitPc = "done" /\ fetches >= 1 /\ waitJob.isNil /\ ~FetchFailed) =>
          ~IsJobTerminal(StatusAt(serverSeq, fetches))
    /\ (waitPc = "done" /\ ~waitJob.isNil) =>
          /\ IsJobTerminal(waitJob.Status)
          /\ waitJob.Status = StatusAt(serverSeq, fetches)
          /\ \A k \in 1..(fetches - 1) : ~IsJobTerminal(StatusAt(serverSeq, k))
    /\ \A i \in 1..Len(completed) :
          /\ completed[i] <=> observed[i]
          /\ completed[i] <=> ~results[i].isNil
          /\ completed[i] => IsJobTerminal(results[i].Status)
    /\ ~refetched
    /\ \A i \in 1..(Len(fetched) - 1) : ~IsJobTerminal(fetched[i].Status)
    /\ (streamPc = "tick" /\ fetched # <<>>) =>
          ~IsJobTerminal(fetched[Len(fetched)].Status)
    /\ (streamPc \in {"exit", "exited"} /\ streamCall.jobID # "" /\ errEmitted = <<>>
         /\ curJob = NilJob) =>
          /\ fetched # <<>>
          /\ IsJobTerminal(fetched[Len(fetched)].Status)

\* WaitForJobCompletion polled on after a status that is none of the
\* constants and after IN_QUEUE, and returned the job at TIMED_OUT
C27_Witness ==
    /\ serverSeq = <<"UNKNOWN", "IN_QUEUE", "TIMED_OUT">>
    /\ fetches = 3
    /\ waitPc = "done"
    /\ waitJob.Status = "TIMED_OUT"

(* --------------------------- WaitForPodStatus --------------------------- *)

\* largest maxAttempts WaitForPodStatus is called with
MaxAttempts == 2

\* maxAttempts = 30 // Default max attempts
DefaultMaxAttempts == 30

Pod(id, status) == [isNil |-> FALSE, ID |-> id, Status |-> status]

NilPod == [isNil |-> TRUE, ID |-> "", Status |-> ""]

\* the statuses a pod is reported with, in the spellings a response can
\* carry
PodStatuses ==
    {"CREATED", "RUNNING", "running", "EXITED", "Exited", "DEAD", "TERMINATED", "FAILED"}

\* strings.ToUpper on the strings of the model
ToUpper(str) ==
    CASE str = "running" -> "RUNNING"
      [] str = "Exited" -> "EXITED"
      [] str = "exited" -> "EXITED"
      [] OTHER -> str

\* the comparison of the status with the error states as they are spelt
isPodInErrorStateExact(status) ==
    status \in {"EXITED", "DEAD", "TERMINATED", "FAILED"}

\* Client.isPodInErrorState
isPodInErrorState(status) ==
    ToUpper(status) \in {"EXITED", "DEAD", "TERMINATED", "FAILED"}

\* strings.ToUpper(pod.Status) == strings.ToUpper(targetStatus)
reachedTarget(status, targetStatus) == ToUpper(status) = ToUpper(targetStatus)

\* the errors GetPod returns: for an empty podID the validation error
\* before any request, and the wrapped errors of Get, which under a
\* cancelled context are the context's
GetPodErrors(podID, ctxCancelled) ==
    IF validateRequired("podID", podID) # nil
    THEN { validateRequired("podID", podID) }
    ELSE IF ctxCancelled
    THEN { FacadeWrap("GetPod", CtxErr) }
    ELSE { FacadeWrap("GetPod", NewAPIError(404, "resource not found")),
           FacadeWrap("GetPod",
                      ExhaustedError(MaxRetries + 1, NewNetworkError("HTTP request failed"))) }

\* fmt.Errorf("pod %s is in error state: %s", podID, pod.Status)
errorStateError(podID, status) ==
    StringError(<<"pod ", podID, " is in error state: ", status>>)

\* fmt.Errorf("pod %s did not reach status %s after %d attempts", ...)
notReachedError(podID, targetStatus, n) ==
    StringError(<<"pod ", podID, " did not reach status ", targetStatus, " after ">>
                \o Itoa(n) \o <<" attempts">>)

PodCalls ==
    [podID : {"", "p1"}, targetStatus : {"RUNNING", "running", "exited"},
     maxAttempts : (-1)..MaxAttempts]

InitPod ==
    /\ podCall \in PodCalls
    /\ maxAttempts = podCall.maxAttempts
    /\ podAttempt = 0
    /\ podPc = "start"
    /\ podFetches = 0
    /\ podStatus = ""
    /\ podPassed = {}
    /\ podRet = NilPod
    /\ podErr = nil
    /\ podCancelled = FALSE
    /\ NonPodIdle

\* the default of maxAttempts and the start of the loop
PodStart ==
    /\ podPc = "start"
    /\ maxAttempts' = IF maxAttempts <= 0 THEN DefaultMaxAttempts ELSE maxAttempts
    /\ podAttempt' = 0
    /\ podPc' = "loop"
    /\ UNCHANGED <<podCall, podFetches, podStatus, podPassed, podRet, podErr, podCancelled>>
    /\ UNCHANGED nonPodVars

\* the loop test; when it holds, one call of GetPod, the test of the
\* target and the test of the error states; when it does not, the return
\* after the loop
PodPoll ==
    /\ podPc = "loop"
    /\ IF podAttempt < maxAttempts
       THEN /\ podFetches' = podFetches + 1
            /\ \/ /\ \E err \in GetPodErrors(podCall.podID, podCancelled) :
                        podErr' = err
                  /\ podPc' = "done"
                  /\ podRet' = NilPod
                  /\ UNCHANGED <<podStatus, podPassed>>
               \/ /\ ~podCancelled
                  /\ validateRequired("podID", podCall.podID) = nil
                  /\ \E st \in PodStatuses :
                        /\ podStatus' = st
                        /\ IF reachedTarget(st, podCall.targetStatus)
                           THEN /\ podPc' = "done"
                                /\ podRet' = Pod(podCall.podID, st)
                                /\ podErr' = nil
                                /\ UNCHANGED podPassed
                           ELSE IF isPodInErrorState(st)
                           THEN /\ podPc' = "done"
                                /\ podRet' = Pod(podCall.podID, st)
                                /\ podErr' = errorStateError(podCall.podID, st)
                                /\ UNCHANGED podPassed
                           ELSE /\ podPc' = "select"
                                /\ podPassed' = podPassed \cup {st}
                                /\ UNCHANGED <<podRet, podErr>>
       ELSE /\ podPc' = "done"
            /\ podRet' = NilPod
            /\ podErr' = notReachedError(podCall.podID, podCall.targetStatus, maxAttempts)
            /\ UNCHANGED <<podFetches, podStatus, podPassed>>
    /\ UNCHANGED <<podCall, maxAttempts, podAttempt, podCancelled>>
    /\ UNCHANGED nonPodVars

\* case <-ctx.Done() of the select
PodSelectCancelled ==
    /\ podPc = "select"
    /\ podCancelled
    /\ podPc' = "done"
    /\ podRet' = NilPod
    /\ podErr' = CtxErr
    /\ UNCHANGED <<podCall, maxAttempts, podAttempt, podFetches, podStatus, podPassed,
                   podCancelled>>
    /\ UNCHANGED nonPodVars

\* case <-time.After(5 * time.Second) of the select, and attempt++
PodSelectTimer ==
    /\ podPc = "select"
    /\ ~podCancelled
    /\ podAttempt' = podAttempt + 1
    /\ podPc' = "loop"
    /\ UNCHANGED <<podCall, maxAttempts, podFetches, podStatus, podPassed, podRet,
                   podErr, podCancelled>>
    /\ UNCHANGED nonPodVars

\* the caller cancels the context
PodCancel ==
    /\ podPc # "done"
    /\ ~podCancelled
    /\ podCancelled' = TRUE
    /\ UNCHANGED <<podCall, maxAttempts, podAttempt, podPc, podFetches, podStatus,
                   podPassed, podRet, podErr>>
    /\ UNCHANGED nonPodVars

NextPod ==
    \/ PodStart
    \/ PodPoll
    \/ PodSelectCancelled
    \/ PodSelectTimer
    \/ PodCancel

SpecPod == InitPod /\ [][NextPod]_vars

\* the number of calls of GetPod WaitForPodStatus may make
PodBound == IF podCall.maxAttempts <= 0 THEN 30 ELSE podCall.maxAttempts

\* the status is the target, whatever the case of the letters
IsTarget(st) == ToUpper(st) = ToUpper(podCall.targetStatus)

\* the status is one of the four error states
IsErrorState(st) == ToUpper(st) \in {"EXITED", "DEAD", "TERMINATED", "FAILED"}

\* the ways of returning the claim lists
PodListedReturn ==
    \/ /\ ~podRet.isNil
       /\ podErr = nil
       /\ podRet.Status = podStatus
       /\ IsTarget(podStatus)
    \/ /\ ~podRet.isNil
       /\ podErr = errorStateError(podCall.podID, podStatus)
       /\ podRet.Status = podStatus
       /\ IsErrorState(podStatus)
       /\ ~IsTarget(podStatus)
    \/ /\ podRet.isNil
       /\ podErr = CtxErr
       /\ podCancelled
       /\ podFetches >= 1
    \/ /\ podRet.isNil
       /\ podErr = notReachedError(podCall.podID, podCall.targetStatus, PodBound)
       /\ podFetches = PodBound

\* what holds of every call, however it returns
PodPolling ==
    /\ podFetches <= PodBound
    /\ podPc # "start" => podFetches \in {podAttempt, podAttempt + 1}
    /\ \A st \in podPassed : ~IsTarget(st) /\ ~IsErrorState(st)

\* C29 as stated: WaitForPodStatus makes at most maxAttempts calls of
\* GetPod (30 when maxAttempts <= 0), goes on polling only after a status
\* that is neither the target nor an error state, and returns in one of
\* four ways: the pod at a status equal to the target, the pod with an
\* error at an error state that is not the target, the context's error
\* after a cancellation during the wait, or else the 'did not reach
\* status' error after exactly maxAttempts fetches.
C29_Original ==
    /\ PodPolling
    /\ podPc = "done" => PodListedReturn

\* C29 amended: as above, with a fifth way of returning: at the first call
\* of GetPod that fails, a nil pod and that call's error.
C29_PodStatus ==
    /\ PodPolling
    /\ podPc = "done" =>
          \/ PodListedReturn
          \/ /\ podRet.isNil
             /\ podErr \in GetPodErrors(podCall.podID, podCancelled)
             /\ podFetches >= 1

\* a third call of GetPod failed after two that found the pod short of
\* the target
C29_Witness ==
    /\ podPc = "done"
    /\ podCall.maxAttempts <= 0
    /\ podFetches = 3
    /\ podPassed = {"CREATED"}
    /\ ~podCancelled
    /\ IsAPIError(Tail(podErr))

(* ------------------- a bound that is zero or negative ------------------- *)

\* ten minutes
TenMinutes == 10 * 60 * 1000000

\* a call of WaitForMultipleJobs with job ids and a bound that is not
\* positive, past its first statement
MultiUnbounded ==
    /\ Len(multiCall.jobIDs) > 0
    /\ multiCall.maxWaitTime <= 0
    /\ multiPc # "start"

\* a call of WaitForJobCompletion with a bound that is not positive, past
\* its first statement
WaitUnbounded ==
    /\ waitCall.endpointID # ""
    /\ waitCall.maxWaitTime <= 0
    /\ waitPc # "start"

\* C30: WaitForMultipleJobs called with maxWaitTime <= 0 fetches no status
\* and returns a slice of N nil jobs with the error '0 out of N jobs
\* completed within <maxWaitTime>'; WaitForJobCompletion called with
\* maxWaitTime <= 0 waits up to ten minutes instead and fetches the status
\* at least once.
C30_NoDefaultDeadline ==
    /\ MultiUnbounded =>
          /\ multiDeadline <= multiNow
          /\ \A i \in 1..Len(multiCall.jobIDs) : fetchCount[i] = 0
          /\ multiPc \in {"loop", "done"}
          /\ multiPc = "done" =>
                /\ ~resultsNil
                /\ Len(results) = Len(multiCall.jobIDs)
                /\ \A i \in 1..Len(results) : results[i].isNil
                /\ multiErr = StringError(<<"0">> \o <<" out of ">>
                                          \o Itoa(Len(multiCall.jobIDs))
                                          \o <<" jobs completed within ">>
                                          \o DurationString(multiCall.maxWaitTime))
    /\ WaitUnbounded =>
          /\ maxWaitTime = TenMinutes
          /\ deadline = TenMinutes
          /\ waitPc = "done" => fetches >= 1

\* a call of WaitForMultipleJobs for two jobs with a negative bound has
\* returned
C30_Witness ==
    /\ MultiUnbounded
    /\ multiPc = "done"
    /\ Len(multiCall.jobIDs) = 2
    /\ multiCall.maxWaitTime < 0
    /\ multiErr # nil

====
